---- MODULE Spec2Model ----
(***************************************************************************)
(* The lava-run game of zero-commits-are-lava: the grid builder            *)
(* (toGameGrid), the traversal simulator (simulateRun) and the round loop  *)
(* that runs one attempt per start row (the submit handler).               *)
(*                                                                         *)
(* A grid is a function from positions <<row, col>> to tiles.  A tile      *)
(* record keeps the fields the simulator reads or writes: count, type,     *)
(* stepsLeft and visits; row and col are the position itself, and the      *)
(* date is only read by toGameGrid.                                        *)
(*                                                                         *)
(* Around the game: the contrib handler of the backend with its rate       *)
(* limiter and its cache, the providers' fetchWithBackoff, and the page's  *)
(* runGame flag and preview loads.  Each has its own variables and its own *)
(* specification, which leaves the game's variables alone.                 *)
(***************************************************************************)
EXTENDS Integers, Sequences, FiniteSets

VARIABLES
  rawGrid,    \* the round's raw tiles: position -> [date, count]
  today,      \* the day toGameGrid compares dates with
  hardMode,   \* the round's hard-mode flag
  row,        \* the round loop's attempt counter (the start row)
  grid,       \* the grid handed to simulateRun (shared in hard mode)
  entryGrid,  \* history: the value of grid when the current call started
  pc,         \* "call" | "loop" | "returned" | "done"
  mutable,    \* simulateRun: the grid the run works on
  frames,     \* simulateRun: one snapshot of mutable per step
  path,       \* simulateRun: the positions landed on, in order
  current,    \* simulateRun: the avatar's position
  visited,    \* simulateRun: position -> landings in this run
  stack,      \* simulateRun: the active path
  inPath,     \* simulateRun: the positions of the active path
  triedFrom,  \* simulateRun: position -> positions tried from it
  reached,    \* simulateRun: the furthest column reached
  result,     \* simulateRun: the returned win, death, reachedColumns, ...
  results,    \* the round's recorded attempts
  bestAttempt, \* the round's best attempt (best), once selected
  clock,            \* Date.now(), in milliseconds
  rateLimitMap,     \* contrib handler: source IP -> [count, resetAt]
  TABLE_NAME,       \* cache: the configured table name ("" when unset)
  CACHE_TTL_SECONDS,\* contrib handler: the configured TTL (<<>> when unset)
  cacheTable,       \* cache: the table's items, cache key -> entry
  cacheStale,       \* cache: the items a read that lags behind can return
  response,         \* contrib handler: the last response and what it took
  tries,            \* fetchWithBackoff: the number of attempts allowed
  attempt,          \* fetchWithBackoff: the loop counter
  delay,            \* fetchWithBackoff: the next sleep, in milliseconds
  sleeps,           \* history: the sleeps of the call, in order
  requests,         \* history: the outcomes of the call's requests
  outcome,          \* fetchWithBackoff: running, or how the call ended
  isRunning,        \* page: runGame's flag
  rounds,           \* page: the calls of runGame that have not ended
  started,          \* history: the number of rounds started
  submitted,        \* history: what the last submit came to
  errorText,        \* page: errorEl.textContent
  previewRequestId, \* page: the id of the last preview load started
  lastPreviewKey,   \* page: the key of the last preview load started
  previewGrid,      \* page: the preview's raw grid (<<>> for null)
  previewMeta,      \* page: the preview's range (<<>> for null)
  loads,            \* page: the preview loads that wait for their response
  dropped           \* history: the ids of the loads whose response was dropped

gameVars == <<rawGrid, today, hardMode, row, grid, entryGrid, pc, mutable,
              frames, path, current, visited, stack, inPath, triedFrom,
              reached, result, results, bestAttempt>>

contribVars == <<clock, rateLimitMap, TABLE_NAME, CACHE_TTL_SECONDS,
                 cacheTable, cacheStale, response>>

backoffVars == <<tries, attempt, delay, sleeps, requests, outcome>>

roundVars == <<isRunning, rounds, started, submitted>>

previewVars == <<previewRequestId, lastPreviewKey, previewGrid, previewMeta,
                 loads, dropped>>

pageVars == <<roundVars, errorText, previewVars>>

webVars == <<contribVars, backoffVars, pageVars>>

\* What the steps of the contrib handler, of fetchWithBackoff, of runGame
\* and of the preview leave alone.
notContrib == <<gameVars, backoffVars, pageVars>>
notBackoff == <<gameVars, contribVars, pageVars>>
notRound == <<gameVars, contribVars, backoffVars, previewVars>>
notPreview == <<gameVars, contribVars, backoffVars, roundVars>>

vars == <<gameVars, webVars>>

\* No request was handled yet.
NoResponse == [status |-> 0]

\* The backend as it starts: an empty limiter map, no table configured.
ContribIdle ==
  /\ clock = 0
  /\ rateLimitMap = <<>>
  /\ TABLE_NAME = ""
  /\ CACHE_TTL_SECONDS = <<>>
  /\ cacheTable = <<>>
  /\ cacheStale = <<>>
  /\ response = NoResponse

\* fetchWithBackoff is not being called.
BackoffIdle ==
  /\ tries = 0
  /\ attempt = 0
  /\ delay = 0
  /\ sleeps = <<>>
  /\ requests = <<>>
  /\ outcome = [kind |-> "idle"]

\* The page as it loads, before prefillFromQuery.
PageIdle ==
  /\ isRunning = FALSE
  /\ rounds = {}
  /\ started = 0
  /\ submitted = "none"
  /\ errorText = ""
  /\ previewRequestId = 0
  /\ lastPreviewKey = ""
  /\ previewGrid = <<>>
  /\ previewMeta = <<>>
  /\ loads = {}
  /\ dropped = {}

\* Nothing outside the game has happened.
WebIdle ==
  /\ ContribIdle
  /\ BackoffIdle
  /\ PageIdle

runVars == <<mutable, frames, path, current, visited, stack, inPath,
             triedFrom, reached>>

\* ------------------------------------------------------------------ bounds

\* The widest grid of the model, in columns (weeks).
NumCols == 6

\* How many raw tiles, in row-major order over the columns before the goal
\* column, draw their count freely; every other raw tile has count 0.
FreeTiles == 5

\* How many times the repeated caller calls simulateRun on its grid.
RepeatCalls == 2

\* The widest raw grid handed to the grid builder on its own, and the largest
\* count of its tiles.
BuildCols == 3
BuildMaxCount == 4

\* The most weeks, and the longest path, handed to the scorer on its own.
ScoreWeeks == 5
ScorePath == 3

\* How many attempts the selection on its own is handed.
SelectCount == 3

\* The width of the dense grids, whose runs are long enough to meet the
\* loop's ceiling.
DenseCols == 4

\* --------------------------------------------------------------- constants

SHALLOW_MAX_STEPS == 2
SOLID_TO_SHALLOW_STEPS == 2
maxBacktrack == 3
MaxRow == 6
DAYS_PER_WEEK == 7
attemptCount == 7
MinMoves == 30
MovesPerCol == 10

Min(a, b) == IF a < b THEN a ELSE b
Max(a, b) == IF a > b THEN a ELSE b

Rows == 0..MaxRow

\* The positions of a grid of w columns.
Positions(w) == Rows \X (0..(w - 1))

\* rawGrid[0].length
Width(g) == Cardinality({p \in DOMAIN g : p[1] = 0})

\* ------------------------------------------------------------ grid builder

\* buildRawGrid: day index = col * 7 + row, counted from the start week.
DateOf(r, c) == c * DAYS_PER_WEEK + r

buildRawGrid(w, counts) ==
  [p \in Positions(w) |->
     [date |-> DateOf(p[1], p[2]),
      count |-> IF p \in DOMAIN counts THEN counts[p] ELSE 0]]

\* Variant: a tile needs more than 3 contributions to be solid.
tileTypeForAbove(tile, col, lastCol, todayUTC) ==
  LET isFuture == tile.date > todayUTC
  IN  IF isFuture THEN "lava"
      ELSE IF col = lastCol THEN "solid"
      ELSE IF tile.count > 3 THEN "solid"
      ELSE IF tile.count >= 1 THEN "shallow"
      ELSE "lava"

\* Variant: the last column is not made solid.
tileTypeForPlain(tile, col, lastCol, todayUTC) ==
  LET isFuture == tile.date > todayUTC
  IN  IF isFuture THEN "lava"
      ELSE IF tile.count >= 3 THEN "solid"
      ELSE IF tile.count >= 1 THEN "shallow"
      ELSE "lava"

\* Variant: the last column is made solid before the date is looked at.
tileTypeForGoalFirst(tile, col, lastCol, todayUTC) ==
  LET isFuture == tile.date > todayUTC
  IN  IF col = lastCol THEN "solid"
      ELSE IF isFuture THEN "lava"
      ELSE IF tile.count >= 3 THEN "solid"
      ELSE IF tile.count >= 1 THEN "shallow"
      ELSE "lava"

tileTypeFor(tile, col, lastCol, todayUTC) ==
  LET isFuture == tile.date > todayUTC
  IN  IF isFuture THEN "lava"
      ELSE IF col = lastCol THEN "solid"
      ELSE IF tile.count >= 3 THEN "solid"
      ELSE IF tile.count >= 1 THEN "shallow"
      ELSE "lava"

toGameGrid(raw, todayUTC) ==
  LET lastCol == Width(raw) - 1
  IN  [p \in DOMAIN raw |->
         LET type == tileTypeFor(raw[p], p[2], lastCol, todayUTC)
         IN  [count |-> raw[p].count,
              type |-> type,
              stepsLeft |-> IF type = "shallow" THEN SHALLOW_MAX_STEPS ELSE 0,
              visits |-> 0]]

\* --------------------------------------------------------------- simulator

\* Variants of stepOnTile in which one rule of the wear differs: a landing
\* on a shallow tile takes `dec` steps and returns `collapseDies` when the
\* tile collapses; a solid tile turns at `threshold` visits, into lava at
\* once when `skipShallow`.
stepOnTileVariant(tile, dec, threshold, collapseDies, skipShallow) ==
  LET v == tile.visits + 1
  IN  IF tile.type = "shallow"
      THEN IF tile.stepsLeft - dec <= 0
           THEN [tile |-> [tile EXCEPT !.visits = v, !.type = "lava",
                                       !.stepsLeft = 0],
                 died |-> collapseDies]
           ELSE [tile |-> [tile EXCEPT !.visits = v,
                                       !.stepsLeft = tile.stepsLeft - dec],
                 died |-> FALSE]
      ELSE IF tile.type = "solid"
      THEN IF v >= threshold
           THEN IF skipShallow
                THEN [tile |-> [tile EXCEPT !.visits = v, !.type = "lava",
                                            !.stepsLeft = 0],
                      died |-> FALSE]
                ELSE [tile |-> [tile EXCEPT !.visits = v, !.type = "shallow",
                                    !.stepsLeft = SHALLOW_MAX_STEPS - 1],
                      died |-> FALSE]
           ELSE [tile |-> [tile EXCEPT !.visits = v], died |-> FALSE]
      ELSE [tile |-> [tile EXCEPT !.visits = v], died |-> TRUE]

\* Variant: a landing on a shallow tile takes two steps.
stepOnTileDouble(tile) ==
  stepOnTileVariant(tile, 2, SOLID_TO_SHALLOW_STEPS, FALSE, FALSE)

\* Variant: a solid tile turns shallow on its first landing.
stepOnTileEager(tile) ==
  stepOnTileVariant(tile, 1, SOLID_TO_SHALLOW_STEPS - 1, FALSE, FALSE)

\* Variant: a worn solid tile turns into lava at once.
stepOnTileSkip(tile) ==
  stepOnTileVariant(tile, 1, SOLID_TO_SHALLOW_STEPS, FALSE, TRUE)

\* Variant: the landing that collapses a shallow tile kills the avatar.
stepOnTileDeadly(tile) ==
  stepOnTileVariant(tile, 1, SOLID_TO_SHALLOW_STEPS, TRUE, FALSE)

\* Variant: a landing on a shallow tile is not counted in visits.
stepOnTileUncounted(tile) ==
  LET stepped == stepOnTileVariant(tile, 1, SOLID_TO_SHALLOW_STEPS, FALSE,
                                   FALSE)
  IN  IF tile.type = "shallow"
      THEN [stepped EXCEPT !.tile.visits = tile.visits]
      ELSE stepped

\* stepOnTile: the tile after the landing, and the value returned.
stepOnTile(tile) ==
  LET v == tile.visits + 1
  IN  IF tile.type = "shallow"
      THEN IF tile.stepsLeft - 1 <= 0
           THEN [tile |-> [tile EXCEPT !.visits = v, !.type = "lava",
                                       !.stepsLeft = 0],
                 died |-> FALSE]
           ELSE [tile |-> [tile EXCEPT !.visits = v,
                                       !.stepsLeft = tile.stepsLeft - 1],
                 died |-> FALSE]
      ELSE IF tile.type = "solid"
      THEN IF v >= SOLID_TO_SHALLOW_STEPS
           THEN IF SHALLOW_MAX_STEPS - 1 <= 0
                THEN [tile |-> [tile EXCEPT !.visits = v, !.type = "lava",
                                            !.stepsLeft = 0],
                      died |-> FALSE]
                ELSE [tile |-> [tile EXCEPT !.visits = v, !.type = "shallow",
                                    !.stepsLeft = SHALLOW_MAX_STEPS - 1],
                      died |-> FALSE]
           ELSE [tile |-> [tile EXCEPT !.visits = v], died |-> FALSE]
      ELSE [tile |-> [tile EXCEPT !.visits = v], died |-> TRUE]

\* remember: one more landing on p in this run.
remember(vis, p) ==
  IF p \in DOMAIN vis
  THEN [vis EXCEPT ![p] = @ + 1]
  ELSE [q \in DOMAIN vis \cup {p} |-> IF q = p THEN 1 ELSE vis[q]]

visitedCount(vis, p) == IF p \in DOMAIN vis THEN vis[p] ELSE 0

NoResult ==
  [win |-> FALSE, death |-> FALSE, reachedColumns |-> 0, skipped |-> FALSE,
   deathIndex |-> -1]

\* The tile can be stepped on: not lava, and not a shallow tile used up.
Walkable(g, p) ==
  /\ g[p].type # "lava"
  /\ ~(g[p].type = "shallow" /\ g[p].stepsLeft <= 0)

\* Variant: the step to the right jumps a column.
DeltasJump ==
  << <<-1, -1>>, <<-1, 0>>, <<-1, 1>>, <<0, -1>>,
     <<0, 2>>, <<1, -1>>, <<1, 0>>, <<1, 1>> >>

\* The (dr, dc) pairs in the order of the two nested loops.
Deltas ==
  << <<-1, -1>>, <<-1, 0>>, <<-1, 1>>, <<0, -1>>,
     <<0, 1>>, <<1, -1>>, <<1, 0>>, <<1, 1>> >>

NeighbourSeq(p) ==
  [i \in 1..Len(Deltas) |-> <<p[1] + Deltas[i][1], p[2] + Deltas[i][2]>>]

\* The bounds both loops test: the 7 rows, the columns, and no more than
\* maxBacktrack columns behind the furthest column reached.
InReach(q, maxCol, reachedCol) ==
  /\ q[1] >= 0 /\ q[1] <= MaxRow
  /\ q[2] >= 0 /\ q[2] <= maxCol
  /\ q[2] >= reachedCol - maxBacktrack

\* Variant: no move is remembered as tried.
wasTriedNever(tried, from, to) == FALSE

wasTried(tried, from, to) == from \in DOMAIN tried /\ to \in tried[from]

markTried(tried, from, to) ==
  [q \in DOMAIN tried \cup {from} |->
     IF q = from
     THEN (IF from \in DOMAIN tried THEN tried[from] ELSE {}) \cup {to}
     ELSE tried[q]]

\* Variant: the tiles of the active path are candidates too.
collectCandidatesInPath(g, from, maxCol, reachedCol, inP, tried) ==
  LET Keep(q) ==
        /\ InReach(q, maxCol, reachedCol)
        /\ Walkable(g, q)
        /\ ~wasTried(tried, from, q)
  IN  SelectSeq(NeighbourSeq(from), Keep)

collectCandidates(g, from, maxCol, reachedCol, inP, tried) ==
  LET Keep(q) ==
        /\ InReach(q, maxCol, reachedCol)
        /\ Walkable(g, q)
        /\ q \notin inP
        /\ ~wasTried(tried, from, q)
  IN  SelectSeq(NeighbourSeq(from), Keep)

SetMax(S) == CHOOSE x \in S : \A y \in S : y <= x

\* Two different tiles a king's move apart.
Adjacent(p, q) ==
  /\ p # q
  /\ p[1] - q[1] \in {-1, 0, 1}
  /\ p[2] - q[2] \in {-1, 0, 1}

\* The tiles estimateReach's search may enqueue: inside the bounds, walkable
\* and not on the active path.
searchable(g, maxCol, reachedCol, inP) ==
  {q \in DOMAIN g : /\ InReach(q, maxCol, reachedCol)
                    /\ Walkable(g, q)
                    /\ q \notin inP}

\* estimateReach's search, one breadth-first level per call: the tiles of
\* frontier are `steps` moves from the start tile, and open are the
\* searchable tiles not yet seen.
RECURSIVE reachLevels(_, _, _, _, _)
reachLevels(open, frontier, steps, best, maxCol) ==
  IF frontier = {}
  THEN best
  ELSE LET far == SetMax({p[2] : p \in frontier} \cup {best.maxReachCol})
           atGoal == \E p \in frontier : p[2] = maxCol
           now == IF atGoal /\ ~best.finite
                  THEN [maxReachCol |-> far, stepsToGoal |-> steps,
                        finite |-> TRUE]
                  ELSE [best EXCEPT !.maxReachCol = far]
           next == {q \in open : \E p \in frontier : Adjacent(p, q)}
       IN  reachLevels(open \ next, next, steps + 1, now, maxCol)

\* estimateReach: stepsToGoal is meaningful only when finite is TRUE
\* (finite = FALSE stands for Number.POSITIVE_INFINITY).
estimateReach(g, from, maxCol, reachedCol, inP) ==
  reachLevels(searchable(g, maxCol, reachedCol, inP) \ {from}, {from}, 0,
              [maxReachCol |-> from[2], stepsToGoal |-> 0, finite |-> FALSE],
              maxCol)

scoreTile(tile, col, visitedCnt, colDelta, reach) ==
  LET typeScore == IF tile.type = "solid" THEN 4
                   ELSE IF tile.type = "shallow" THEN 1 ELSE -10
      forwardBias == colDelta * 6
      reachScore == reach.maxReachCol * 12
                    + (IF reach.finite THEN 120 - reach.stepsToGoal ELSE 0)
  IN  col * 10 + typeScore + forwardBias - visitedCnt * 2 + reachScore

\* What the comparator reads of a candidate: its reach (getReach), its
\* score and its count.
sortKey(g, c, cur, vis, maxCol, reachedCol, inP) ==
  LET reach == estimateReach(g, c, maxCol, reachedCol, inP)
  IN  [finite |-> reach.finite,
       maxReachCol |-> reach.maxReachCol,
       score |-> scoreTile(g[c], c[2], visitedCount(vis, c), c[2] - cur[2],
                           reach),
       count |-> g[c].count]

\* Variant: the comparator has no tiebreak on the count.
sortsBeforeNoCount(a, b) ==
  IF a.finite # b.finite THEN a.finite
  ELSE IF b.maxReachCol # a.maxReachCol THEN a.maxReachCol > b.maxReachCol
  ELSE a.score > b.score

\* Variant: the comparator looks at the count first.
sortsBeforeCountFirst(a, b) ==
  IF a.count # b.count THEN a.count > b.count
  ELSE IF a.finite # b.finite THEN a.finite
  ELSE IF b.maxReachCol # a.maxReachCol THEN a.maxReachCol > b.maxReachCol
  ELSE a.score > b.score

\* The sort's comparator is negative: a goes before b.
sortsBefore(a, b) ==
  IF a.finite # b.finite THEN a.finite
  ELSE IF b.maxReachCol # a.maxReachCol THEN a.maxReachCol > b.maxReachCol
  ELSE IF b.score # a.score THEN a.score > b.score
  ELSE a.count > b.count

\* The index of candidates[0] after the (stable) sort: the first candidate,
\* in the order collected, that no other candidate sorts before.
firstSorted(keys) ==
  LET top(i) == \A j \in 1..Len(keys) : ~sortsBefore(keys[j], keys[i])
  IN  CHOOSE i \in 1..Len(keys) : top(i) /\ \A k \in 1..(i - 1) : ~top(k)

\* The sort keys of the candidates, in the order collected.
RECURSIVE sortKeys(_, _, _, _, _, _, _)
sortKeys(g, cands, cur, vis, maxCol, reachedCol, inP) ==
  IF cands = <<>>
  THEN <<>>
  ELSE <<sortKey(g, Head(cands), cur, vis, maxCol, reachedCol, inP)>>
       \o sortKeys(g, Tail(cands), cur, vis, maxCol, reachedCol, inP)

\* The tile the forward move goes to.
chooseNext(g, cands, cur, vis, maxCol, reachedCol, inP) ==
  cands[firstSorted(sortKeys(g, cands, cur, vis, maxCol, reachedCol, inP))]

maxColOf(g) == Width(g) - 1

maxMoves(g) == Max(MinMoves, maxColOf(g) * MovesPerCol)

candidates ==
  collectCandidates(mutable, current, maxColOf(mutable), reached, inPath,
                    triedFrom)

\* Variant: the backtrack target's column is not tested.
BranchNoLimit ==
  IF ~(Len(path) < maxMoves(mutable)) THEN "ceiling"
  ELSE IF current[2] = maxColOf(mutable) THEN "win"
  ELSE IF Len(candidates) = 0
  THEN IF Len(stack) = 1 THEN "stuck" ELSE "backtrack"
  ELSE "forward"

\* Variant: the loop has no ceiling on the path length.
BranchNoCeiling ==
  IF current[2] = maxColOf(mutable) THEN "win"
  ELSE IF Len(candidates) = 0
  THEN IF Len(stack) = 1 THEN "stuck"
       ELSE IF stack[Len(stack) - 1][2] < reached - maxBacktrack
       THEN "limit"
       ELSE "backtrack"
  ELSE "forward"

\* Variant: the goal column is looked at only when no candidate is left.
BranchWinLast ==
  IF ~(Len(path) < maxMoves(mutable)) THEN "ceiling"
  ELSE IF Len(candidates) = 0
  THEN IF current[2] = maxColOf(mutable) THEN "win"
       ELSE IF Len(stack) = 1 THEN "stuck"
       ELSE IF stack[Len(stack) - 1][2] < reached - maxBacktrack
       THEN "limit"
       ELSE "backtrack"
  ELSE "forward"

\* Which statement of the loop the next iteration reaches.
Branch ==
  IF ~(Len(path) < maxMoves(mutable)) THEN "ceiling"
  ELSE IF current[2] = maxColOf(mutable) THEN "win"
  ELSE IF Len(candidates) = 0
  THEN IF Len(stack) = 1 THEN "stuck"
       ELSE IF stack[Len(stack) - 1][2] < reached - maxBacktrack
       THEN "limit"
       ELSE "backtrack"
  ELSE "forward"

\* Variant: a lost run reports the furthest column index itself.
deathResultBare(reachedCol, pathLen) ==
  [win |-> FALSE, death |-> TRUE, reachedColumns |-> reachedCol,
   skipped |-> FALSE, deathIndex |-> pathLen - 1]

deathResult(reachedCol, pathLen) ==
  [win |-> FALSE, death |-> TRUE, reachedColumns |-> reachedCol + 1,
   skipped |-> FALSE, deathIndex |-> pathLen - 1]

\* Variant: the win return sets death too.
winResultDead(reachedCol) ==
  [win |-> TRUE, death |-> TRUE, reachedColumns |-> reachedCol + 1,
   skipped |-> FALSE, deathIndex |-> -1]

\* Variant: the win return does not set win.
winResultUnset(reachedCol) ==
  [win |-> FALSE, death |-> FALSE, reachedColumns |-> reachedCol + 1,
   skipped |-> FALSE, deathIndex |-> -1]

winResult(reachedCol) ==
  [win |-> TRUE, death |-> FALSE, reachedColumns |-> reachedCol + 1,
   skipped |-> FALSE, deathIndex |-> -1]

skippedResult ==
  [win |-> FALSE, death |-> FALSE, reachedColumns |-> 0, skipped |-> TRUE,
   deathIndex |-> -1]

\* The caller's grid after the run's grid became m: the same object when
\* the call was made with clone: false, untouched otherwise.
cloneOption == ~hardMode

\* Variant: the run always works on the grid it was handed.
callerGridShared(m) == m

\* Variant: the run always works on a copy.
callerGridCopy(m) == grid

callerGrid(m) == IF cloneOption THEN grid ELSE m

\* Variant: every attempt is handed a freshly built grid.
attemptGridFresh == toGameGrid(rawGrid, today)

\* The grid the round hands to the attempt: the shared grid in hard mode,
\* a freshly built one otherwise.
attemptGrid == IF hardMode THEN grid ELSE toGameGrid(rawGrid, today)

\* ------------------------------------------------------------------ scorer

HARD_MODE_BONUS == 200

\* Variant: the quotient is rounded down.
roundDivDown(n, d) == n \div d

\* Math.round of a non-negative quotient n / d: the nearest integer, halves up.
roundDiv(n, d) == (2 * n + d) \div (2 * d)

\* Variant: the total leaves the hard-mode bonus out.
scoreRunNoBonus(weeks, res, pathLen, bonus) ==
  LET base == weeks * 100
      progress == roundDiv(res.reachedColumns * 1000, weeks)
      winBonus == IF res.win THEN 500 ELSE 0
      deathPenalty == IF res.death THEN -200 ELSE 0
      jumps == Max(0, pathLen - 1)
      jumpBonus == jumps * 5
  IN  [total |-> base + progress + winBonus + deathPenalty + jumpBonus,
       breakdown |-> [base |-> base, progress |-> progress,
                      winBonus |-> winBonus, deathPenalty |-> deathPenalty,
                      jumpBonus |-> jumpBonus, hardModeBonus |-> bonus]]

\* options.hardModeBonus ?? 0: options is a record with or without the field.
hardModeBonusOf(options) ==
  IF "hardModeBonus" \in DOMAIN options THEN options.hardModeBonus ELSE 0

scoreRun(weeks, res, pathLen, bonus) ==
  LET base == weeks * 100
      progress == roundDiv(res.reachedColumns * 1000, weeks)
      winBonus == IF res.win THEN 500 ELSE 0
      deathPenalty == IF res.death THEN -200 ELSE 0
      jumps == Max(0, pathLen - 1)
      jumpBonus == jumps * 5
  IN  [total |-> base + progress + winBonus + deathPenalty + jumpBonus + bonus,
       breakdown |-> [base |-> base, progress |-> progress,
                      winBonus |-> winBonus, deathPenalty |-> deathPenalty,
                      jumpBonus |-> jumpBonus, hardModeBonus |-> bonus]]

skippedScore ==
  [total |-> 0,
   breakdown |-> [base |-> 0, progress |-> 0, winBonus |-> 0,
                  deathPenalty |-> 0, jumpBonus |-> 0, hardModeBonus |-> 0]]

\* --------------------------------------------------------- best attempt

\* best before the selection.
NoBest == [attempt |-> -1]

\* Variant: the comparator does not look at win.
attemptBeforeNoWin(a, b) ==
  IF b.total # a.total THEN a.total > b.total
  ELSE a.reachedColumns > b.reachedColumns

\* The selection's comparator is negative: a goes before b.
attemptBefore(a, b) ==
  IF b.total # a.total THEN b.total - a.total < 0
  ELSE IF b.win # a.win
  THEN (IF b.win THEN 1 ELSE 0) - (IF a.win THEN 1 ELSE 0) < 0
  ELSE b.reachedColumns - a.reachedColumns < 0

\* The place, in the sequence idxs of indices of rs, of the element the
\* (stable) sort puts first: the first that no other one sorts before.
firstAttempt(rs, idxs) ==
  LET top(i) ==
        \A j \in 1..Len(idxs) : ~attemptBefore(rs[idxs[j]], rs[idxs[i]])
  IN  CHOOSE i \in 1..Len(idxs) : top(i) /\ \A k \in 1..(i - 1) : ~top(k)

\* Array.prototype.sort with the comparator, on the indices idxs of rs.
RECURSIVE sortAttempts(_, _)
sortAttempts(rs, idxs) ==
  IF idxs = <<>>
  THEN <<>>
  ELSE LET i == firstAttempt(rs, idxs)
           rest == [k \in 1..(Len(idxs) - 1) |->
                      IF k < i THEN idxs[k] ELSE idxs[k + 1]]
       IN  <<idxs[i]>> \o sortAttempts(rs, rest)

\* The indices of the attempts that are sorted: those not skipped, or all of
\* them when none is left.
sortable(rs) ==
  LET all == [i \in 1..Len(rs) |-> i]
      kept == SelectSeq(all, LAMBDA i : ~rs[i].skipped)
  IN  IF Len(kept) > 0 THEN kept ELSE all

\* ------------------------------------------------------------------ actions

\* The widths of the model's grids: the two smallest ones (the start column
\* is the goal column, or touches it) and the widest.
Widths == {1, 2, NumCols}

CountValues == {0, 1, 3}

\* The raw tiles whose count is drawn freely in a grid of w columns.
FreePositions(w) ==
  IF w = 1 THEN {}
  ELSE {<<k \div (w - 1), k % (w - 1)>> :
          k \in 0..(Min(FreeTiles, (MaxRow + 1) * (w - 1)) - 1)}

\* today is the last day of the range (no tile is in the future), or a week
\* earlier (the last column is).
TodayChoices(w) == {DateOf(MaxRow, w - 1), DateOf(MaxRow, w - 1) - DAYS_PER_WEEK}

Init ==
  /\ \E w \in Widths : \E counts \in [FreePositions(w) -> CountValues] :
       /\ rawGrid = buildRawGrid(w, counts)
       /\ today \in TodayChoices(w)
  /\ hardMode \in BOOLEAN
  /\ row = 0
  /\ grid = toGameGrid(rawGrid, today)
  /\ entryGrid = grid
  /\ pc = "call"
  /\ mutable = grid
  /\ frames = <<>>
  /\ path = <<>>
  /\ current = <<0, 0>>
  /\ visited = <<>>
  /\ stack = <<>>
  /\ inPath = {}
  /\ triedFrom = <<>>
  /\ reached = 0
  /\ result = NoResult
  /\ results = <<>>
  /\ bestAttempt = NoBest
  /\ WebIdle

\* Variant: the start check comes after the step onto the start tile.
StartSkippedStepping ==
  /\ pc = "call"
  /\ attemptGrid[<<row, 0>>].type = "lava"
  /\ LET m == [attemptGrid EXCEPT
                 ![<<row, 0>>] = stepOnTile(attemptGrid[<<row, 0>>]).tile]
     IN  /\ grid' = IF cloneOption THEN attemptGrid ELSE m
         /\ mutable' = m
  /\ entryGrid' = attemptGrid
  /\ frames' = <<>>
  /\ path' = <<>>
  /\ current' = <<row, 0>>
  /\ visited' = <<>>
  /\ stack' = <<>>
  /\ inPath' = {}
  /\ triedFrom' = <<>>
  /\ reached' = 0
  /\ result' = skippedResult
  /\ pc' = "returned"
  /\ UNCHANGED <<webVars, rawGrid, today, hardMode, row, results, bestAttempt>>

\* simulateRun(grid, row, options), start tile lava: the run is skipped.
StartSkipped ==
  /\ pc = "call"
  /\ attemptGrid[<<row, 0>>].type = "lava"
  /\ grid' = attemptGrid
  /\ entryGrid' = attemptGrid
  /\ mutable' = attemptGrid
  /\ frames' = <<>>
  /\ path' = <<>>
  /\ current' = <<row, 0>>
  /\ visited' = <<>>
  /\ stack' = <<>>
  /\ inPath' = {}
  /\ triedFrom' = <<>>
  /\ reached' = 0
  /\ result' = skippedResult
  /\ pc' = "returned"
  /\ UNCHANGED <<webVars, rawGrid, today, hardMode, row, results, bestAttempt>>

\* Variant: the visit counts live on from one call to the next.
EntryKeepsVisited ==
  /\ pc = "call"
  /\ attemptGrid[<<row, 0>>].type # "lava"
  /\ LET start == <<row, 0>>
         step == stepOnTile(attemptGrid[start])
         m == [attemptGrid EXCEPT ![start] = step.tile]
     IN  /\ mutable' = m
         /\ grid' = IF cloneOption THEN attemptGrid ELSE m
         /\ entryGrid' = attemptGrid
         /\ frames' = <<m>>
         /\ path' = <<start>>
         /\ current' = start
         /\ visited' = remember(visited, start)
         /\ stack' = <<start>>
         /\ inPath' = {start}
         /\ triedFrom' = <<>>
         /\ reached' = start[2]
         /\ result' = IF step.died THEN deathResult(start[2], 1) ELSE NoResult
         /\ pc' = IF step.died THEN "returned" ELSE "loop"
  /\ UNCHANGED <<webVars, rawGrid, today, hardMode, row, results, bestAttempt>>

\* simulateRun(grid, row, options), up to the main loop: the entry step.
Entry ==
  /\ pc = "call"
  /\ attemptGrid[<<row, 0>>].type # "lava"
  /\ LET start == <<row, 0>>
         step == stepOnTile(attemptGrid[start])
         m == [attemptGrid EXCEPT ![start] = step.tile]
     IN  /\ mutable' = m
         /\ grid' = IF cloneOption THEN attemptGrid ELSE m
         /\ entryGrid' = attemptGrid
         /\ frames' = <<m>>
         /\ path' = <<start>>
         /\ current' = start
         /\ visited' = remember(<<>>, start)
         /\ stack' = <<start>>
         /\ inPath' = {start}
         /\ triedFrom' = <<>>
         /\ reached' = start[2]
         /\ result' = IF step.died THEN deathResult(start[2], 1) ELSE NoResult
         /\ pc' = IF step.died THEN "returned" ELSE "loop"
  /\ UNCHANGED <<webVars, rawGrid, today, hardMode, row, results, bestAttempt>>

\* Variant: the forward move pushes the run's grid itself, no snapshot, so
\* that every frame shows the grid as it is now.
ForwardSharedFrames ==
  /\ pc = "loop"
  /\ Branch = "forward"
  /\ LET next == chooseNext(mutable, candidates, current, visited,
                            maxColOf(mutable), reached, inPath)
         step == stepOnTile(mutable[next])
         m == [mutable EXCEPT ![next] = step.tile]
         far == Max(reached, next[2])
     IN  /\ triedFrom' = markTried(triedFrom, current, next)
         /\ current' = next
         /\ stack' = Append(stack, next)
         /\ inPath' = inPath \cup {next}
         /\ visited' = remember(visited, next)
         /\ mutable' = m
         /\ grid' = callerGrid(m)
         /\ path' = Append(path, next)
         /\ frames' = [i \in 1..(Len(frames) + 1) |-> m]
         /\ reached' = far
         /\ result' = IF step.died THEN deathResult(far, Len(path) + 1)
                      ELSE result
         /\ pc' = IF step.died THEN "returned" ELSE "loop"
  /\ UNCHANGED <<webVars, rawGrid, today, hardMode, row, entryGrid, results,
                 bestAttempt>>

\* One iteration of the main loop that moves forward to the best candidate.
Forward ==
  /\ pc = "loop"
  /\ Branch = "forward"
  /\ LET next == chooseNext(mutable, candidates, current, visited,
                            maxColOf(mutable), reached, inPath)
         step == stepOnTile(mutable[next])
         m == [mutable EXCEPT ![next] = step.tile]
         far == Max(reached, next[2])
     IN  /\ triedFrom' = markTried(triedFrom, current, next)
         /\ current' = next
         /\ stack' = Append(stack, next)
         /\ inPath' = inPath \cup {next}
         /\ visited' = remember(visited, next)
         /\ mutable' = m
         /\ grid' = callerGrid(m)
         /\ path' = Append(path, next)
         /\ frames' = Append(frames, m)
         /\ reached' = far
         /\ result' = IF step.died THEN deathResult(far, Len(path) + 1)
                      ELSE result
         /\ pc' = IF step.died THEN "returned" ELSE "loop"
  /\ UNCHANGED <<webVars, rawGrid, today, hardMode, row, entryGrid, results,
                 bestAttempt>>

\* Variant: the step back leaves the re-entered tile as it was.
BacktrackNoWear ==
  /\ pc = "loop"
  /\ Branch = "backtrack"
  /\ LET backtrackTarget == stack[Len(stack) - 1]
         deadEnd == stack[Len(stack)]
         far == Max(reached, backtrackTarget[2])
     IN  /\ stack' = SubSeq(stack, 1, Len(stack) - 1)
         /\ inPath' = inPath \ {deadEnd}
         /\ current' = backtrackTarget
         /\ visited' = remember(visited, backtrackTarget)
         /\ mutable' = mutable
         /\ grid' = callerGrid(mutable)
         /\ path' = Append(path, backtrackTarget)
         /\ frames' = Append(frames, mutable)
         /\ reached' = far
         /\ result' = result
         /\ pc' = "loop"
  /\ UNCHANGED <<webVars, rawGrid, today, hardMode, row, entryGrid, triedFrom, results,
                 bestAttempt>>

\* One iteration of the main loop that steps back onto the previous tile of
\* the active path.
Backtrack ==
  /\ pc = "loop"
  /\ Branch = "backtrack"
  /\ LET backtrackTarget == stack[Len(stack) - 1]
         deadEnd == stack[Len(stack)]
         step == stepOnTile(mutable[backtrackTarget])
         m == [mutable EXCEPT ![backtrackTarget] = step.tile]
         far == Max(reached, backtrackTarget[2])
     IN  /\ stack' = SubSeq(stack, 1, Len(stack) - 1)
         /\ inPath' = inPath \ {deadEnd}
         /\ current' = backtrackTarget
         /\ visited' = remember(visited, backtrackTarget)
         /\ mutable' = m
         /\ grid' = callerGrid(m)
         /\ path' = Append(path, backtrackTarget)
         /\ frames' = Append(frames, m)
         /\ reached' = far
         /\ result' = IF step.died THEN deathResult(far, Len(path) + 1)
                      ELSE result
         /\ pc' = IF step.died THEN "returned" ELSE "loop"
  /\ UNCHANGED <<webVars, rawGrid, today, hardMode, row, entryGrid, triedFrom, results,
                 bestAttempt>>

\* The loop's return statements without a move: the goal column is reached,
\* the avatar is stuck, or the loop ran out of moves.
Return ==
  /\ pc = "loop"
  /\ Branch \in {"win", "stuck", "limit", "ceiling"}
  /\ result' = IF Branch = "win" THEN winResult(reached)
               ELSE deathResult(reached, Len(path))
  /\ pc' = "returned"
  /\ UNCHANGED <<webVars, rawGrid, today, hardMode, row, grid, entryGrid, runVars,
                 results, bestAttempt>>

\* Variant: every attempt is scored by scoreRun, a skipped one too.
RecordScoresSkipped ==
  /\ pc = "returned"
  /\ LET weeks == Width(rawGrid)
         scored == scoreRun(weeks, result, Len(path), 0)
     IN  results' = Append(results,
                           [total |-> scored.total,
                            breakdown |-> scored.breakdown,
                            attempt |-> row,
                            win |-> result.win,
                            reachedColumns |-> result.reachedColumns,
                            death |-> result.death,
                            skipped |-> result.skipped])
  /\ row' = row + 1
  /\ pc' = IF row + 1 < attemptCount THEN "call" ELSE "done"
  /\ UNCHANGED <<webVars, rawGrid, today, hardMode, grid, entryGrid, runVars, result,
                 bestAttempt>>

\* The round loop's body after simulateRun returned: score and record the
\* attempt, then go on with the next start row.
Record ==
  /\ pc = "returned"
  /\ LET weeks == Width(rawGrid)
         scored == IF result.skipped THEN skippedScore
                   ELSE scoreRun(weeks, result, Len(path), 0)
     IN  results' = Append(results,
                           [total |-> scored.total,
                            breakdown |-> scored.breakdown,
                            attempt |-> row,
                            win |-> result.win,
                            reachedColumns |-> result.reachedColumns,
                            death |-> result.death,
                            skipped |-> result.skipped])
  /\ row' = row + 1
  /\ pc' = IF row + 1 < attemptCount THEN "call" ELSE "done"
  /\ UNCHANGED <<webVars, rawGrid, today, hardMode, grid, entryGrid, runVars, result,
                 bestAttempt>>

\* Variant: in hard mode every recorded attempt receives the bonus.
SelectBonusAll ==
  /\ pc = "done"
  /\ results # <<>>
  /\ LET sorted == sortAttempts(results, sortable(results))
         bestAt == sorted[1]
         hardModeBonus == IF hardMode THEN HARD_MODE_BONUS ELSE 0
         withBonus(r) == IF hardMode
                         THEN [r EXCEPT !.total = @ + hardModeBonus,
                                        !.breakdown.hardModeBonus = hardModeBonus]
                         ELSE r
     IN  /\ bestAttempt' = withBonus(results[bestAt])
         /\ results' = [i \in 1..Len(results) |-> withBonus(results[i])]
  /\ pc' = "selected"
  /\ UNCHANGED <<webVars, rawGrid, today, hardMode, row, grid, entryGrid, runVars,
                 result>>

\* The handler after the round loop: the best attempt is the first of the
\* sorted attempts, and in hard mode it receives the bonus.  The best attempt
\* is one of the records of results, so the bonus shows there too; when
\* every attempt is skipped, results itself is the array that is sorted.
Select ==
  /\ pc = "done"
  /\ results # <<>>
  /\ LET sorted == sortAttempts(results, sortable(results))
         bestAt == sorted[1]
         hardModeBonus == IF hardMode THEN HARD_MODE_BONUS ELSE 0
         chosen == IF hardMode
                   THEN [results[bestAt] EXCEPT
                           !.total = @ + hardModeBonus,
                           !.breakdown.hardModeBonus = hardModeBonus]
                   ELSE results[bestAt]
         inPlace == Len(sorted) = Len(results)
                    /\ \A i \in 1..Len(results) : results[i].skipped
     IN  /\ bestAttempt' = chosen
         /\ results' = IF inPlace
                       THEN [i \in 1..Len(results) |->
                               IF i = 1 THEN chosen ELSE results[sorted[i]]]
                       ELSE [results EXCEPT ![bestAt] = chosen]
  /\ pc' = "selected"
  /\ UNCHANGED <<webVars, rawGrid, today, hardMode, row, grid, entryGrid, runVars,
                 result>>

\* The test's caller: simulateRun is called again on the same grid, from the
\* same start row.
CallAgain ==
  /\ pc = "returned"
  /\ results' = Append(results,
                       [attempt |-> Len(results),
                        win |-> result.win,
                        reachedColumns |-> result.reachedColumns,
                        death |-> result.death,
                        skipped |-> result.skipped])
  /\ pc' = IF Len(results) + 1 < RepeatCalls THEN "call" ELSE "done"
  /\ UNCHANGED <<webVars, rawGrid, today, hardMode, row, grid, entryGrid, runVars,
                 result, bestAttempt>>

\* A round: one attempt per start row, 0 to 6.
Next ==
  \/ StartSkipped
  \/ Entry
  \/ Forward
  \/ Backtrack
  \/ Return
  \/ Record
  \/ Select

Spec == Init /\ [][Next]_vars

\* Calls of simulateRun with clone: false on one grid from one start row, as
\* the tests make them: the grid carries the wear from call to call.
InitRepeat ==
  /\ \E w \in Widths : \E counts \in [FreePositions(w) -> CountValues] :
       /\ rawGrid = buildRawGrid(w, counts)
       /\ today \in TodayChoices(w)
  /\ hardMode = TRUE
  /\ row \in Rows
  /\ grid = toGameGrid(rawGrid, today)
  /\ entryGrid = grid
  /\ pc = "call"
  /\ mutable = grid
  /\ frames = <<>>
  /\ path = <<>>
  /\ current = <<0, 0>>
  /\ visited = <<>>
  /\ stack = <<>>
  /\ inPath = {}
  /\ triedFrom = <<>>
  /\ reached = 0
  /\ result = NoResult
  /\ results = <<>>
  /\ bestAttempt = NoBest
  /\ WebIdle

NextRepeat ==
  \/ StartSkipped
  \/ Entry
  \/ Forward
  \/ Backtrack
  \/ Return
  \/ CallAgain

SpecRepeat == InitRepeat /\ [][NextRepeat]_vars

\* Rounds on dense grids: every tile before the goal column has count 3,
\* but for a few of counts 0 or 3, so that a run can wander for as long as the
\* loop lets it.  The handler runs to completion once started: each step that
\* can be taken is taken.
DenseFree == {<<0, 0>>, <<3, 0>>, <<6, 1>>}

DenseCounts(w, free) ==
  [p \in Positions(w - 1) |-> IF p \in DOMAIN free THEN free[p] ELSE 3]

InitDense ==
  /\ \E free \in [DenseFree -> {0, 3}] :
       /\ rawGrid = buildRawGrid(DenseCols, DenseCounts(DenseCols, free))
       /\ today \in TodayChoices(DenseCols)
  /\ hardMode \in BOOLEAN
  /\ row = 0
  /\ grid = toGameGrid(rawGrid, today)
  /\ entryGrid = grid
  /\ pc = "call"
  /\ mutable = grid
  /\ frames = <<>>
  /\ path = <<>>
  /\ current = <<0, 0>>
  /\ visited = <<>>
  /\ stack = <<>>
  /\ inPath = {}
  /\ triedFrom = <<>>
  /\ reached = 0
  /\ result = NoResult
  /\ results = <<>>
  /\ bestAttempt = NoBest
  /\ WebIdle

\* The handler is sequential code: the statement it stands at is executed.
\* The last two conjuncts are weak fairness of Forward and of Select, written
\* with the action's guard for its enabling condition.
Fairness ==
  /\ WF_vars(StartSkipped)
  /\ WF_vars(Entry)
  /\ WF_vars(Backtrack)
  /\ WF_vars(Return)
  /\ WF_vars(Record)
  /\ \/ []<>(~(pc = "loop" /\ Branch = "forward"))
     \/ []<><<Forward>>_vars
  /\ \/ []<>(~(pc = "done" /\ results # <<>>))
     \/ []<><<Select>>_vars

SpecDense == InitDense /\ [][Next]_vars /\ Fairness

\* Two calls of simulateRun with the same start row and options, on grids
\* that agree tile for tile: the caller keeps what the first call returned
\* and hands the second call the grid the first one was handed.
CallTwin ==
  /\ pc = "returned"
  /\ results' = Append(results,
                       [path |-> path,
                        win |-> result.win,
                        death |-> result.death,
                        reachedColumns |-> result.reachedColumns,
                        skipped |-> result.skipped,
                        frames |-> frames,
                        grid |-> mutable])
  /\ grid' = entryGrid
  /\ pc' = IF Len(results) = 0 THEN "call" ELSE "done"
  /\ UNCHANGED <<webVars, rawGrid, today, hardMode, row, entryGrid, runVars, result,
                 bestAttempt>>

InitTwin ==
  /\ \E w \in Widths : \E counts \in [FreePositions(w) -> CountValues] :
       /\ rawGrid = buildRawGrid(w, counts)
       /\ today \in TodayChoices(w)
  /\ hardMode \in BOOLEAN
  /\ row \in Rows
  /\ grid = toGameGrid(rawGrid, today)
  /\ entryGrid = grid
  /\ pc = "call"
  /\ mutable = grid
  /\ frames = <<>>
  /\ path = <<>>
  /\ current = <<0, 0>>
  /\ visited = <<>>
  /\ stack = <<>>
  /\ inPath = {}
  /\ triedFrom = <<>>
  /\ reached = 0
  /\ result = NoResult
  /\ results = <<>>
  /\ bestAttempt = NoBest
  /\ WebIdle

NextTwin ==
  \/ StartSkipped
  \/ Entry
  \/ Forward
  \/ Backtrack
  \/ Return
  \/ CallTwin

SpecTwin == InitTwin /\ [][NextTwin]_vars

\* The grid builder on its own.  The raw grids have 0 to BuildCols columns
\* and 7 rows, or 6: toGameGrid is handed whatever array its caller built.
\* A raw grid of 0 columns is 7 empty rows, which is what buildRawGrid makes
\* of 0 weeks (the submit handler itself asks for 1 week or more).  Three
\* tiles draw their count: the first tile, and two of the last column.
BuildFree(w) == {<<0, 0>>, <<3, w - 1>>, <<MaxRow, w - 1>>} \cap Positions(w)

keepRows(raw, n) == [p \in {q \in DOMAIN raw : q[1] < n} |-> raw[p]]

InitBuild ==
  /\ \E w \in 0..BuildCols : \E n \in {MaxRow, MaxRow + 1} :
       \E counts \in [BuildFree(w) -> 0..BuildMaxCount] :
         /\ rawGrid = keepRows(buildRawGrid(w, counts), n)
         /\ today \in (-1)..DateOf(MaxRow, w - 1)
  /\ hardMode = FALSE
  /\ row = 0
  /\ grid = <<>>
  /\ entryGrid = grid
  /\ pc = "build"
  /\ mutable = grid
  /\ frames = <<>>
  /\ path = <<>>
  /\ current = <<0, 0>>
  /\ visited = <<>>
  /\ stack = <<>>
  /\ inPath = {}
  /\ triedFrom = <<>>
  /\ reached = 0
  /\ result = NoResult
  /\ results = <<>>
  /\ bestAttempt = NoBest
  /\ WebIdle

\* toGameGrid(rawGrid): it has no statement that rejects a raw grid.
Build ==
  /\ pc = "build"
  /\ grid' = toGameGrid(rawGrid, today)
  /\ pc' = "built"
  /\ UNCHANGED <<webVars, rawGrid, today, hardMode, row, entryGrid, runVars, result,
                 results, bestAttempt>>

NextBuild == Build

SpecBuild == InitBuild /\ [][NextBuild]_vars

\* The scorer on its own, as the tests call it: any weeks, any result and
\* path, with or without the hardModeBonus option.
NoOptions == [x \in {} |-> 0]

ScoreOptions ==
  {NoOptions, [hardModeBonus |-> 0], [hardModeBonus |-> HARD_MODE_BONUS]}

InitScore ==
  /\ \E w \in 1..ScoreWeeks : \E n \in 0..ScorePath :
       /\ rawGrid = buildRawGrid(w, <<>>)
       /\ path = [i \in 1..n |-> <<0, 0>>]
       /\ \E win, death \in BOOLEAN : \E cols \in 0..w :
            result = [win |-> win, death |-> death, reachedColumns |-> cols,
                      skipped |-> FALSE, deathIndex |-> -1]
  /\ today = DateOf(MaxRow, Width(rawGrid) - 1)
  /\ hardMode = FALSE
  /\ row = 0
  /\ grid = toGameGrid(rawGrid, today)
  /\ entryGrid = grid
  /\ pc = "score"
  /\ mutable = grid
  /\ frames = <<>>
  /\ current = <<0, 0>>
  /\ visited = <<>>
  /\ stack = <<>>
  /\ inPath = {}
  /\ triedFrom = <<>>
  /\ reached = 0
  /\ results = <<>>
  /\ bestAttempt = NoBest
  /\ WebIdle

\* scoreRun(weeks, result, options)
Score ==
  /\ pc = "score"
  /\ \E options \in ScoreOptions :
       LET scored == scoreRun(Width(rawGrid), result, Len(path),
                              hardModeBonusOf(options))
       IN  results' = <<[total |-> scored.total,
                         breakdown |-> scored.breakdown,
                         options |-> options]>>
  /\ pc' = "scored"
  /\ UNCHANGED <<webVars, rawGrid, today, hardMode, row, grid, entryGrid, runVars,
                 result, bestAttempt>>

NextScore == Score

SpecScore == InitScore /\ [][NextScore]_vars

\* The best-attempt selection on its own, on any list of recorded attempts.
\* A skipped attempt is recorded as the round loop records it.  The selection
\* reads only total, win, reachedColumns and skipped, so the other attempts
\* take their total from two values and keep it whole in breakdown.base.
SelectTotals == {300, 800}

SelectColumns == {1, 2}

AttemptChoices ==
  {[total |-> skippedScore.total, breakdown |-> skippedScore.breakdown,
    win |-> FALSE, reachedColumns |-> 0, death |-> FALSE, skipped |-> TRUE]}
  \cup
  {[total |-> t,
    breakdown |-> [skippedScore.breakdown EXCEPT !.base = t],
    win |-> w, reachedColumns |-> c, death |-> ~w, skipped |-> FALSE] :
     t \in SelectTotals, w \in BOOLEAN, c \in SelectColumns}

InitSelect ==
  /\ \E choice \in [1..SelectCount -> AttemptChoices] :
       results = [i \in 1..SelectCount |->
                    [total |-> choice[i].total,
                     breakdown |-> choice[i].breakdown,
                     attempt |-> i - 1,
                     win |-> choice[i].win,
                     reachedColumns |-> choice[i].reachedColumns,
                     death |-> choice[i].death,
                     skipped |-> choice[i].skipped]]
  /\ hardMode \in BOOLEAN
  /\ rawGrid = buildRawGrid(1, <<>>)
  /\ today = DateOf(MaxRow, 0)
  /\ row = SelectCount
  /\ grid = toGameGrid(rawGrid, today)
  /\ entryGrid = grid
  /\ pc = "done"
  /\ mutable = grid
  /\ frames = <<>>
  /\ path = <<>>
  /\ current = <<0, 0>>
  /\ visited = <<>>
  /\ stack = <<>>
  /\ inPath = {}
  /\ triedFrom = <<>>
  /\ reached = 0
  /\ result = NoResult
  /\ bestAttempt = NoBest
  /\ WebIdle

NextSelect == Select

SpecSelect == InitSelect /\ [][NextSelect]_vars

\* Rounds on the grids of the reachability test: 4 columns, lava but for
\* the start tile (3, 0), the pocket (2, 1) and the route (4, 1), (4, 2),
\* (4, 3), whose counts are drawn.
ForkCols == 4

ForkFree == {<<3, 0>>, <<2, 1>>, <<4, 1>>, <<4, 2>>, <<4, 3>>}

InitFork ==
  /\ \E counts \in [ForkFree -> CountValues] :
       /\ rawGrid = buildRawGrid(ForkCols, counts)
       /\ today \in TodayChoices(ForkCols)
  /\ hardMode \in BOOLEAN
  /\ row = 0
  /\ grid = toGameGrid(rawGrid, today)
  /\ entryGrid = grid
  /\ pc = "call"
  /\ mutable = grid
  /\ frames = <<>>
  /\ path = <<>>
  /\ current = <<0, 0>>
  /\ visited = <<>>
  /\ stack = <<>>
  /\ inPath = {}
  /\ triedFrom = <<>>
  /\ reached = 0
  /\ result = NoResult
  /\ results = <<>>
  /\ bestAttempt = NoBest
  /\ WebIdle

SpecFork == InitFork /\ [][Next]_vars

\* ------------------------------------------------------------------ claims

\* The grid before and after the i-th landing of the current run: the first
\* landing starts from the grid the call received.
Before(i) == IF i = 1 THEN entryGrid ELSE frames[i - 1]

After(i) == frames[i]

Landings == 1..Len(path)

KingMove(a, b) ==
  /\ a[1] - b[1] \in {-1, 0, 1}
  /\ a[2] - b[2] \in {-1, 0, 1}
  /\ a # b

FurthestBefore(i) == SetMax({path[j][2] : j \in 1..(i - 1)})

\* C1: in the path a run returns, every two consecutive entries are a king's
\* move apart: rows and columns differ by at most 1 and the tiles differ,
\* for forward moves and backtrack moves alike.
C1_PathAdjacent ==
  pc = "returned" =>
    \A i \in 2..Len(path) : KingMove(path[i - 1], path[i])

\* A returned path with a forward move and a backtrack move.
C1_Witness ==
  /\ pc = "returned"
  /\ Len(path) >= 4
  /\ \E i \in 3..Len(path) : path[i] = path[i - 2]
  /\ \E i \in 2..Len(path) : path[i][2] = path[i - 1][2] + 1

\* C2: every entry of the returned path is at most 3 columns behind the
\* furthest column of the entries before it.
C2_BacktrackBound ==
  pc = "returned" =>
    \A i \in 2..Len(path) : path[i][2] >= FurthestBefore(i) - 3

\* A run that ended because the previous tile of the active path was more
\* than 3 columns behind, with an entry exactly 3 columns behind.
C2_Witness ==
  /\ pc = "returned"
  /\ result.death
  /\ Len(stack) > 1
  /\ stack[Len(stack) - 1][2] < reached - 3
  /\ \E i \in 2..Len(path) : path[i][2] = FurthestBefore(i) - 3

\* C3: a run returns win = TRUE exactly when its path holds a tile of the
\* goal column and death is FALSE.
C3_WinIffGoal ==
  pc = "returned" =>
    (result.win <=>
       /\ \E i \in Landings : path[i][2] = Width(mutable) - 1
       /\ ~result.death)

\* A won run of more than one move.
C3_Witness ==
  /\ pc = "returned"
  /\ result.win
  /\ Len(path) > 2

\* C4: a call whose start tile is lava is skipped with no move: skipped,
\* empty path, no win, no death, reachedColumns 0, no frame, and every tile
\* of the run's grid and of the caller's grid as it was.
C4_SkippedStart ==
  (pc \in {"loop", "returned"} /\ entryGrid[<<row, 0>>].type = "lava") =>
    /\ pc = "returned"
    /\ result.skipped
    /\ path = <<>>
    /\ ~result.win
    /\ ~result.death
    /\ result.reachedColumns = 0
    /\ frames = <<>>
    /\ mutable = entryGrid
    /\ grid = entryGrid

\* A skipped call with clone: false, the start tile turned to lava by an
\* earlier attempt.
C4_Witness ==
  /\ pc = "returned"
  /\ result.skipped
  /\ hardMode
  /\ toGameGrid(rawGrid, today)[<<row, 0>>].type # "lava"

\* C5: every landing on a shallow tile takes exactly 1 from its stepsLeft;
\* the tile is lava after the landing that brings stepsLeft to 0 (and still
\* shallow otherwise); and a lava tile is lava in every later frame.
C5_ShallowWear ==
  pc = "returned" =>
    \A i \in Landings :
      /\ Before(i)[path[i]].type = "shallow" =>
           /\ After(i)[path[i]].stepsLeft = Before(i)[path[i]].stepsLeft - 1
           /\ After(i)[path[i]].stepsLeft = 0 =>
                After(i)[path[i]].type = "lava"
           /\ After(i)[path[i]].stepsLeft > 0 =>
                After(i)[path[i]].type = "shallow"
      /\ \A t \in DOMAIN entryGrid :
           Before(i)[t].type = "lava" => After(i)[t].type = "lava"

\* A run with a landing on a shallow tile that stays shallow, a landing that
\* turns a shallow tile into lava, and a later landing on that lava tile.
C5_Witness ==
  /\ pc = "returned"
  /\ \E i \in Landings : /\ Before(i)[path[i]].type = "shallow"
                         /\ After(i)[path[i]].type = "shallow"
  /\ \E i \in Landings : /\ Before(i)[path[i]].type = "shallow"
                         /\ After(i)[path[i]].type = "lava"
                         /\ \E j \in Landings : j > i /\ path[j] = path[i]

\* C6: a landing on a solid tile makes it shallow with stepsLeft 1 exactly
\* when its visits after the landing are at least 2; with fewer visits it
\* stays solid with stepsLeft 0; a solid tile not landed on stays as it is.
C6_SolidWear ==
  pc = "returned" =>
    \A i \in Landings :
      /\ Before(i)[path[i]].type = "solid" =>
           IF Before(i)[path[i]].visits + 1 >= 2
           THEN /\ After(i)[path[i]].type = "shallow"
                /\ After(i)[path[i]].stepsLeft = 1
           ELSE /\ After(i)[path[i]].type = "solid"
                /\ After(i)[path[i]].stepsLeft = 0
      /\ \A t \in DOMAIN entryGrid :
           (t # path[i] /\ Before(i)[t].type = "solid") =>
             After(i)[t] = Before(i)[t]

\* A run with a first landing on a solid tile and a second landing on it.
C6_Witness ==
  /\ pc = "returned"
  /\ \E i \in Landings : /\ Before(i)[path[i]].type = "solid"
                         /\ Before(i)[path[i]].visits = 0
  /\ \E i \in Landings : /\ Before(i)[path[i]].type = "solid"
                         /\ Before(i)[path[i]].visits >= 1

\* C7: from the grid a call receives to its first frame, and from each frame
\* to the next, a tile's type stays, or goes from solid to shallow, or from
\* shallow to lava: no type upgrades and lava stays lava.
C7_TypeOnlyDegrades ==
  pc = "returned" =>
    \A i \in Landings : \A t \in DOMAIN entryGrid :
      \/ After(i)[t].type = Before(i)[t].type
      \/ Before(i)[t].type = "solid" /\ After(i)[t].type = "shallow"
      \/ Before(i)[t].type = "shallow" /\ After(i)[t].type = "lava"

\* A run in which one tile went from solid through shallow to lava.
C7_Witness ==
  /\ pc = "returned"
  /\ \E t \in DOMAIN entryGrid :
       /\ entryGrid[t].type = "solid"
       /\ mutable[t].type = "lava"

\* The start tile of the current run was shallow with one step left when
\* the call started.
CollapsingStart ==
  /\ pc \in {"loop", "returned"}
  /\ path # <<>>
  /\ entryGrid[path[1]].type = "shallow"
  /\ entryGrid[path[1]].stepsLeft = 1

\* C8: a run whose entry step brings its shallow start tile to 0 steps ends
\* at once in death: death, no win, a path of the start tile alone,
\* reachedColumns 1, the start tile lava.
C8_StartCollapseIsDeath ==
  (CollapsingStart /\ pc = "returned") =>
    /\ result.death
    /\ ~result.win
    /\ path = << <<row, 0>> >>
    /\ result.reachedColumns = 1
    /\ mutable[<<row, 0>>].type = "lava"

\* Some tile next to the start tile is walkable once the entry step is made.
StartHasExit ==
  \E q \in DOMAIN entryGrid : KingMove(path[1], q) /\ Walkable(frames[1], q)

C10_InPlace ==
  /\ [](hardMode =>
          /\ grid = mutable
          /\ (pc \in {"loop", "returned"} /\ frames # <<>>) =>
               grid = frames[Len(frames)])
  /\ [][(hardMode /\ pc = "call" /\ pc' # "call") =>
          entryGrid' = mutable]_vars

\* The second attempt of a hard-mode round starts with a tile lava that was
\* walkable when the first attempt started.
C10_Witness ==
  /\ hardMode
  /\ pc \in {"loop", "returned"}
  /\ row = 1
  /\ \E t \in DOMAIN entryGrid :
       /\ Walkable(toGameGrid(rawGrid, today), t)
       /\ entryGrid[t].type = "lava"

\* C11: with the default options the caller's grid keeps every tile as it
\* was when the call started (type, stepsLeft, visits), at every step and at
\* the return, whether the run is skipped, won or lost; the wear of the
\* landings is in the run's own grid, the one returned as result.grid.
C11_CallerGridUntouched ==
  (~hardMode /\ pc \in {"loop", "returned"}) =>
    /\ grid = entryGrid
    /\ \A p \in DOMAIN grid :
         /\ mutable[p].visits = grid[p].visits + visitedCount(visited, p)
         /\ (p \in {path[i] : i \in Landings}) => mutable[p] # grid[p]
    /\ frames # <<>> => frames[Len(frames)] = mutable

\* A lost run with the default options that wore a tile down to lava.
C11_Witness ==
  /\ ~hardMode
  /\ pc = "returned"
  /\ result.death
  /\ Len(path) >= 3
  /\ \E p \in DOMAIN grid : grid[p].type # "lava" /\ mutable[p].type = "lava"

\* C12: every call of simulateRun returns, and the path never holds more
\* than max(30, 10 * (W - 1)) entries, W the number of columns.
C12_TerminatesWithinCeiling ==
  /\ [](LET W == Width(rawGrid)
        IN  Len(path) <= (IF 10 * (W - 1) > 30 THEN 10 * (W - 1) ELSE 30))
  /\ [](pc = "call" => <>(pc = "returned"))
  /\ [](pc = "loop" => <>(pc = "returned"))

\* A run the ceiling ended: the path is full and its last landing was on a
\* tile that was not lava.
C12_Witness ==
  /\ pc = "returned"
  /\ result.death
  /\ Len(path) = maxMoves(mutable)
  /\ Before(Len(path))[path[Len(path)]].type # "lava"
  /\ path[Len(path)][2] # maxColOf(mutable)

IsFutureTile(p) == rawGrid[p].date > today

\* The last column of the raw grid handed to the builder.
LastRawCol == Width(rawGrid) - 1

\* C14: a tile that is not in the future and not in the last column is built
\* lava when its count is 0, shallow with 2 steps left when its count is 1
\* or 2, solid with 0 steps left when its count is 3 or more; every tile is
\* built with 0 visits.
C14_CountsToTypes ==
  pc = "built" =>
    /\ DOMAIN grid = DOMAIN rawGrid
    /\ \A p \in DOMAIN grid : grid[p].visits = 0
    /\ \A p \in DOMAIN grid :
         (~IsFutureTile(p) /\ p[2] # LastRawCol) =>
           /\ rawGrid[p].count = 0 => grid[p].type = "lava"
           /\ rawGrid[p].count \in {1, 2} =>
                grid[p].type = "shallow" /\ grid[p].stepsLeft = 2
           /\ rawGrid[p].count >= 3 =>
                grid[p].type = "solid" /\ grid[p].stepsLeft = 0

\* A built grid whose first tile, not in the last column and not in the
\* future, has count 3.
C14_Witness ==
  /\ pc = "built"
  /\ LastRawCol > 0
  /\ ~IsFutureTile(<<0, 0>>)
  /\ rawGrid[<<0, 0>>].count = 3
  /\ grid[<<0, 0>>].type = "solid"

\* C15: a tile of the last column that is not in the future is built solid
\* with 0 steps left, whatever its count.
C15_GoalColumnSolid ==
  pc = "built" =>
    \A p \in DOMAIN grid :
      (p[2] = LastRawCol /\ ~IsFutureTile(p)) =>
        grid[p].type = "solid" /\ grid[p].stepsLeft = 0

\* A built grid with two tiles of the last column that are not in the
\* future, one of count 0 and one of count 1.
C15_Witness ==
  /\ pc = "built"
  /\ \E p, q \in DOMAIN grid :
       /\ p[2] = LastRawCol /\ ~IsFutureTile(p) /\ rawGrid[p].count = 0
       /\ q[2] = LastRawCol /\ ~IsFutureTile(q) /\ rawGrid[q].count = 1
       /\ grid[p].type = "solid"

\* C16: a tile whose day is after today is built lava with 0 steps left and
\* 0 visits, whatever its count and also in the last column.
C16_FutureIsLava ==
  pc = "built" =>
    \A p \in DOMAIN grid :
      IsFutureTile(p) =>
        /\ grid[p].type = "lava"
        /\ grid[p].stepsLeft = 0
        /\ grid[p].visits = 0

\* A built grid with a tile of the last column in the future with count 3 or
\* more, and an earlier tile of the same column that is not in the future.
C16_Witness ==
  /\ pc = "built"
  /\ \E p, q \in DOMAIN grid :
       /\ p[2] = LastRawCol /\ IsFutureTile(p) /\ rawGrid[p].count >= 3
       /\ q[2] = LastRawCol /\ ~IsFutureTile(q)
       /\ grid[p].type = "lava"

\* The raw grid has the 7 rows, each with at least one column.
WellFormed(raw) == {p[1] : p \in DOMAIN raw} = Rows

\* C17: the grid builder produces no grid from a raw grid that does not have
\* exactly 7 rows or that has a row without a column.
C17_MalformedRejected ==
  ~(pc = "built" /\ ~WellFormed(rawGrid))

\* C18: the breakdown scoreRun returns has base = weeks * 100, progress =
\* reachedColumns / weeks * 1000 rounded to the nearest integer (a half goes
\* up), winBonus = 500 for a win and 0 otherwise, deathPenalty = -200 for a
\* death and 0 otherwise, and jumpBonus = 5 for every path entry after the
\* first; weeks 5, a win, 5 columns and a path of 1 give 500, 1000, 500, 0, 0.
C18_BreakdownFormula ==
  pc = "scored" =>
    LET weeks == Width(rawGrid)
        b == results[1].breakdown
        moves == IF Len(path) - 1 > 0 THEN Len(path) - 1 ELSE 0
    IN  /\ b.base = weeks * 100
        /\ 2 * weeks * b.progress <= 2000 * result.reachedColumns + weeks
        /\ 2000 * result.reachedColumns + weeks < 2 * weeks * (b.progress + 1)
        /\ b.winBonus = (IF result.win THEN 500 ELSE 0)
        /\ b.deathPenalty = (IF result.death THEN -200 ELSE 0)
        /\ b.jumpBonus = 5 * moves
        /\ (/\ weeks = 5 /\ result.win /\ ~result.death
            /\ result.reachedColumns = 5 /\ Len(path) = 1) =>
             /\ b.base = 500 /\ b.progress = 1000 /\ b.winBonus = 500
             /\ b.deathPenalty = 0 /\ b.jumpBonus = 0

\* The claim's example is scored.
C18_Witness ==
  /\ pc = "scored"
  /\ Width(rawGrid) = 5
  /\ result.win
  /\ ~result.death
  /\ result.reachedColumns = 5
  /\ Len(path) = 1
  /\ results[1].breakdown.progress = 1000

\* C19: the total scoreRun returns is the sum of the six components of the
\* breakdown it returns, and hardModeBonus is 0 when the caller gives no
\* hardModeBonus option, else the option's value.
C19_TotalIsSum ==
  pc = "scored" =>
    LET b == results[1].breakdown
        options == results[1].options
    IN  /\ results[1].total = b.base + b.progress + b.winBonus
                              + b.deathPenalty + b.jumpBonus + b.hardModeBonus
        /\ "hardModeBonus" \notin DOMAIN options => b.hardModeBonus = 0
        /\ "hardModeBonus" \in DOMAIN options =>
             b.hardModeBonus = options.hardModeBonus

\* A lost run of several moves scored with a hard-mode bonus of 200.
C19_Witness ==
  /\ pc = "scored"
  /\ result.death
  /\ Len(path) > 1
  /\ "hardModeBonus" \in DOMAIN results[1].options
  /\ results[1].breakdown.hardModeBonus = 200

\* Attempt x comes strictly before attempt y in the order: a larger total,
\* then a win before no win, then more columns reached.
ComesBefore(x, y) ==
  \/ x.total > y.total
  \/ x.total = y.total /\ x.win /\ ~y.win
  \/ x.total = y.total /\ x.win = y.win
       /\ x.reachedColumns > y.reachedColumns

\* The attempts the order is applied to: those not skipped, or all of them
\* when every attempt is skipped.
Contenders(rs) ==
  IF \E i \in 1..Len(rs) : ~rs[i].skipped
  THEN {i \in 1..Len(rs) : ~rs[i].skipped}
  ELSE 1..Len(rs)

\* C20: the attempt selected as best is one of the attempts not skipped (of
\* all attempts, when all are skipped) that no other of them comes before in
\* the order total descending, win first, reachedColumns descending; it is
\* not a skipped attempt when some attempt is not skipped.
C20_BestIsFirstInOrder ==
  [][(pc = "done" /\ pc' = "selected") =>
       /\ \E i \in Contenders(results) :
            /\ bestAttempt'.attempt = results[i].attempt
            /\ bestAttempt'.win = results[i].win
            /\ bestAttempt'.reachedColumns = results[i].reachedColumns
            /\ bestAttempt'.skipped = results[i].skipped
            /\ \A j \in Contenders(results) :
                 ~ComesBefore(results[j], results[i])
       /\ (\E i \in 1..Len(results) : ~results[i].skipped) =>
            ~bestAttempt'.skipped]_vars

\* The best attempt is a win chosen over an earlier attempt of the same total
\* that is no win, after a skipped first attempt.
C20_Witness ==
  /\ pc = "selected"
  /\ ~hardMode
  /\ results[1].skipped
  /\ bestAttempt.win
  /\ \E i \in 1..Len(results) :
       /\ i - 1 < bestAttempt.attempt
       /\ ~results[i].skipped
       /\ ~results[i].win
       /\ results[i].total = bestAttempt.total

\* The record of attempt a in the list rs of recorded attempts.
RecordOf(rs, a) == rs[CHOOSE i \in 1..Len(rs) : rs[i].attempt = a]

\* C21: until the best attempt is selected every recorded attempt has
\* hardModeBonus 0. The selection picks the best attempt on those bonus-free
\* totals; in hard mode it then adds 200 to the total and to
\* breakdown.hardModeBonus of the best attempt, and every other attempt keeps
\* its total and hardModeBonus 0; without hard mode every attempt keeps its
\* total and hardModeBonus 0.
C21_BonusOnBestOnly ==
  /\ [](pc # "selected" =>
          \A i \in 1..Len(results) : results[i].breakdown.hardModeBonus = 0)
  /\ [][(pc = "done" /\ pc' = "selected") =>
          LET a == bestAttempt'.attempt
              bonus == IF hardMode THEN 200 ELSE 0
          IN  /\ \A j \in Contenders(results) :
                   ~ComesBefore(results[j], RecordOf(results, a))
              /\ bestAttempt'.total = RecordOf(results, a).total + bonus
              /\ bestAttempt'.breakdown.hardModeBonus = bonus
              /\ RecordOf(results', a) = bestAttempt'
              /\ Len(results') = Len(results)
              /\ \A i \in 1..Len(results) :
                   results[i].attempt # a =>
                     /\ RecordOf(results', results[i].attempt) = results[i]
                     /\ results[i].breakdown.hardModeBonus = 0]_vars

\* A hard-mode round whose best attempt is not the first one: it carries the
\* bonus of 200, and an attempt that was not skipped carries none.
C21_Witness ==
  /\ pc = "selected"
  /\ hardMode
  /\ bestAttempt.attempt > 0
  /\ bestAttempt.breakdown.hardModeBonus = 200
  /\ \E i \in 1..Len(results) :
       /\ ~results[i].skipped
       /\ results[i].attempt # bestAttempt.attempt
       /\ results[i].breakdown.hardModeBonus = 0

RECURSIVE WalkClosure(_, _)
WalkClosure(seen, open) ==
  LET more == {q \in open : \E t \in seen : KingMove(t, q)}
  IN  IF more = {} THEN seen ELSE WalkClosure(seen \cup more, open \ more)

GoalReachable(g, from, inP, reachedCol) ==
  LET open == {q \in DOMAIN g : /\ Walkable(g, q)
                                /\ q \notin inP
                                /\ q[2] >= reachedCol - 3}
  IN  \E q \in WalkClosure({from}, open \ {from}) : q[2] = Width(g) - 1

\* C23: at every forward move the tile moved to is one of the candidates,
\* and when some candidate can reach the goal column (over walkable tiles
\* outside the active path, inside the backtrack window) the tile moved to
\* can reach it too.
C23_GoalReachablePreferred ==
  [][(pc = "loop" /\ Len(stack') = Len(stack) + 1) =>
       /\ \E i \in 1..Len(candidates) : candidates[i] = current'
       /\ (\E i \in 1..Len(candidates) :
             GoalReachable(mutable, candidates[i], inPath, reached)) =>
            GoalReachable(mutable, current', inPath, reached)]_vars

\* A won run whose first move had two candidates: a solid tile of a higher
\* count that cannot reach the goal column, and the shallow tile moved to,
\* which can.
C23_Witness ==
  /\ pc = "returned"
  /\ result.win
  /\ Len(path) >= 2
  /\ LET g == frames[1]
         start == path[1]
         cands == collectCandidates(g, start, Width(g) - 1, start[2],
                                    {start}, <<>>)
     IN  \E i, j \in 1..Len(cands) :
           /\ cands[i] = path[2]
           /\ g[cands[i]].type = "shallow"
           /\ GoalReachable(g, cands[i], {start}, start[2])
           /\ g[cands[j]].type = "solid"
           /\ g[cands[j]].count > g[cands[i]].count
           /\ ~GoalReachable(g, cands[j], {start}, start[2])

\* The loop looks for a candidate (the path is below the ceiling and the
\* current tile is not in the goal column) and finds none: no tile next to
\* the current tile is walkable, outside the active path, inside the
\* backtrack window and not yet tried from the current tile.
NoCandidate ==
  LET W == Width(mutable)
  IN  /\ Len(path) < (IF 10 * (W - 1) > 30 THEN 10 * (W - 1) ELSE 30)
      /\ current[2] # W - 1
      /\ ~\E q \in DOMAIN mutable :
            /\ KingMove(current, q)
            /\ Walkable(mutable, q)
            /\ q \notin inPath
            /\ q[2] >= reached - 3
            /\ ~(current \in DOMAIN triedFrom /\ q \in triedFrom[current])

\* The step-on wear takes tile b to tile a.
WearApplied(b, a) ==
  /\ a.visits = b.visits + 1
  /\ a.count = b.count
  /\ b.type = "shallow" =>
       /\ a.stepsLeft = b.stepsLeft - 1
       /\ a.type = (IF a.stepsLeft = 0 THEN "lava" ELSE "shallow")
  /\ b.type = "solid" =>
       IF a.visits >= 2
       THEN a.type = "shallow" /\ a.stepsLeft = 1
       ELSE a.type = "solid" /\ a.stepsLeft = b.stepsLeft
  /\ b.type = "lava" => a.type = "lava" /\ a.stepsLeft = b.stepsLeft

\* C24: when the loop finds no candidate for the current tile, the run
\* returns death with no further path entry exactly if the active path
\* holds only the start tile or the previous tile of the active path is more
\* than 3 columns behind the furthest column reached; otherwise the next
\* path entry is that previous tile, the dead-end tile leaves the active
\* path, and the step-on wear is applied to the re-entered tile and to no
\* other tile.
C24_NoCandidateStep ==
  [][(pc = "loop" /\ NoCandidate) =>
       IF Len(stack) = 1
       THEN /\ pc' = "returned" /\ result'.death /\ ~result'.win
            /\ path' = path /\ mutable' = mutable
       ELSE LET previous == stack[Len(stack) - 1]
            IN  IF previous[2] < reached - 3
                THEN /\ pc' = "returned" /\ result'.death /\ ~result'.win
                     /\ path' = path /\ mutable' = mutable
                ELSE /\ path' = Append(path, previous)
                     /\ current' = previous
                     /\ stack' = SubSeq(stack, 1, Len(stack) - 1)
                     /\ inPath' = inPath \ {current}
                     /\ current \notin inPath'
                     /\ WearApplied(mutable[previous], mutable'[previous])
                     /\ \A t \in DOMAIN mutable :
                          t # previous => mutable'[t] = mutable[t]]_vars

\* A run with a step back to the previous tile that later found no candidate
\* with the previous tile more than 3 columns behind, and ended there.
C24_Witness ==
  /\ pc = "returned"
  /\ result.death
  /\ \E i \in 3..Len(path) : path[i] = path[i - 2]
  /\ NoCandidate
  /\ Len(stack) > 1
  /\ stack[Len(stack) - 1][2] < reached - 3

\* C25: a run that is not skipped has one frame per path entry; the frame of
\* a step is the whole grid right after that step, and no later step of the
\* run alters it; the last frame is the grid the run returns, tile for tile
\* (type, stepsLeft, visits).
C25_FramePerStep ==
  /\ []((pc \in {"loop", "returned"} /\ ~result.skipped) =>
          /\ Len(frames) = Len(path)
          /\ Len(path) >= 1
          /\ \A t \in DOMAIN mutable :
               /\ frames[Len(frames)][t].type = mutable[t].type
               /\ frames[Len(frames)][t].stepsLeft = mutable[t].stepsLeft
               /\ frames[Len(frames)][t].visits = mutable[t].visits)
  /\ [][pc = "loop" =>
          /\ SubSeq(frames', 1, Len(frames)) = frames
          /\ path' # path => frames' = Append(frames, mutable')]_vars
  /\ [][(pc = "call" /\ pc' = "loop") => frames' = <<mutable'>>]_vars

\* A returned run of a forward move and a step back, whose three frames
\* differ from one another.
C25_Witness ==
  /\ pc = "returned"
  /\ ~result.skipped
  /\ Len(frames) >= 3
  /\ path[3] = path[1]
  /\ frames[1] # frames[2]
  /\ frames[2] # frames[3]
  /\ frames[1] # frames[3]
  /\ frames[Len(frames)] = mutable

RECURSIVE StackAfter(_)
StackAfter(i) ==
  IF i = 1
  THEN <<path[1]>>
  ELSE LET before == StackAfter(i - 1)
       IN  IF Len(before) >= 2 /\ path[i] = before[Len(before) - 1]
           THEN SubSeq(before, 1, Len(before) - 1)
           ELSE Append(before, path[i])

\* The i-th entry of the path is a backtrack re-entry.
IsBacktrack(i) ==
  /\ i >= 2
  /\ Len(StackAfter(i - 1)) >= 2
  /\ path[i] = StackAfter(i - 1)[Len(StackAfter(i - 1)) - 1]

\* C27: a backtrack re-entry onto a shallow tile with one step left, which
\* turns the tile into lava, is the last entry of the path, and the run
\* returns death.
C27_ReentryCollapseIsDeath ==
  pc = "returned" =>
    \A i \in 2..Len(path) :
      (/\ IsBacktrack(i)
       /\ Before(i)[path[i]].type = "shallow"
       /\ Before(i)[path[i]].stepsLeft = 1) =>
        /\ i = Len(path)
        /\ result.death
        /\ ~result.win

\* C28: no entry of a run's path, made by a forward move or by a step back,
\* is a tile that was lava before that step.
C28_NeverLandsOnLava ==
  pc \in {"loop", "returned"} =>
    \A i \in Landings : Before(i)[path[i]].type # "lava"

\* The entries of the path made by a forward move.
ForwardMoves == {i \in 2..Len(path) : ~IsBacktrack(i)}

\* C29: within one run no two forward moves go from the same tile to the
\* same tile, also when the tile moved to has left the active path by a step
\* back in between.
C29_EdgeTakenOnce ==
  pc \in {"loop", "returned"} =>
    \A i, j \in ForwardMoves :
      i < j => <<path[i - 1], path[i]>> # <<path[j - 1], path[j]>>

\* A returned run with a step back from a tile that is still walkable and
\* inside the backtrack window after the step, and outside the active path:
\* only the memory of the move keeps the avatar from moving there again.
C29_Witness ==
  /\ pc = "returned"
  /\ \E i \in 3..Len(path) :
       /\ IsBacktrack(i)
       /\ ~IsBacktrack(i - 1)
       /\ path[i - 2] = path[i]
       /\ Walkable(frames[i], path[i - 1])
       /\ path[i - 1] \notin {StackAfter(i)[k] : k \in 1..Len(StackAfter(i))}
       /\ path[i - 1][2] >= FurthestBefore(i + 1) - 3
       /\ path[i] \in DOMAIN triedFrom
       /\ path[i - 1] \in triedFrom[path[i]]

\* C30: the active path of a run never holds a tile twice (so no forward
\* move goes to a tile of the active path); the in-path tiles are exactly the
\* tiles of the stack; the top of the stack is the current tile; and the
\* stack is the active path that the path's moves and steps back leave.
C30_ActivePathSimple ==
  (pc \in {"loop", "returned"} /\ path # <<>>) =>
    /\ \A i, j \in 1..Len(stack) : i # j => stack[i] # stack[j]
    /\ inPath = {stack[i] : i \in 1..Len(stack)}
    /\ stack # <<>>
    /\ stack[Len(stack)] = current
    /\ stack[1] = path[1]
    /\ current = path[Len(path)]
    /\ StackAfter(Len(path)) = stack

\* A run that stepped back and then moved forward to another tile: the
\* dead-end tile is outside the active path, whose tiles are fewer than the
\* path's entries.
C30_Witness ==
  /\ pc \in {"loop", "returned"}
  /\ Len(path) >= 4
  /\ IsBacktrack(Len(path) - 1)
  /\ ~IsBacktrack(Len(path))
  /\ Len(stack) >= 2
  /\ path[Len(path) - 2] \notin inPath

\* The tiles that can be walked to from tile `from`, as GoalReachable walks.
WalkOpen(g, inP, reachedCol) ==
  {q \in DOMAIN g : /\ Walkable(g, q)
                    /\ q \notin inP
                    /\ q[2] >= reachedCol - 3}

FurthestReachable(g, from, inP, reachedCol) ==
  SetMax({q[2] : q \in WalkClosure({from}, WalkOpen(g, inP, reachedCol)
                                            \ {from})})

\* The least number of moves from the tiles of `ring` to the goal column,
\* for a ring from which the goal column can be reached.
RECURSIVE MovesToGoal(_, _, _, _)
MovesToGoal(ring, open, n, goalCol) ==
  IF \E q \in ring : q[2] = goalCol
  THEN n
  ELSE LET next == {q \in open : \E t \in ring : KingMove(t, q)}
       IN  MovesToGoal(next, open \ next, n + 1, goalCol)

\* The composite score of candidate c for the avatar on tile cur.
CompositeScore(g, c, cur, inP, reachedCol) ==
  LET typeBonus == IF g[c].type = "solid" THEN 4
                   ELSE IF g[c].type = "shallow" THEN 1 ELSE -10
      timesVisited == Cardinality({i \in 1..Len(path) : path[i] = c})
      toGoal == IF GoalReachable(g, c, inP, reachedCol)
                THEN 120 - MovesToGoal({c}, WalkOpen(g, inP, reachedCol) \ {c},
                                       0, Width(g) - 1)
                ELSE 0
  IN  10 * c[2] + typeBonus + 6 * (c[2] - cur[2]) - 2 * timesVisited
      + 12 * FurthestReachable(g, c, inP, reachedCol) + toGoal

\* Candidate a ranks strictly above candidate b: goal-reachable first, then
\* the larger furthest reachable column, then the larger composite score,
\* then the larger count.
RanksAbove(g, a, b, cur, inP, reachedCol) ==
  LET aGoal == GoalReachable(g, a, inP, reachedCol)
      bGoal == GoalReachable(g, b, inP, reachedCol)
      aFar == FurthestReachable(g, a, inP, reachedCol)
      bFar == FurthestReachable(g, b, inP, reachedCol)
      aScore == CompositeScore(g, a, cur, inP, reachedCol)
      bScore == CompositeScore(g, b, cur, inP, reachedCol)
  IN  IF aGoal # bGoal THEN aGoal
      ELSE IF aFar # bFar THEN aFar > bFar
      ELSE IF aScore # bScore THEN aScore > bScore
      ELSE g[a].count > g[b].count

\* C31: the tile a forward move goes to is a maximum of the candidates in
\* the order goal-reachable first, larger furthest reachable column, larger
\* composite score, larger count: no candidate ranks strictly above it.
C31_ChosenIsMaximum ==
  [][(pc = "loop" /\ Len(stack') = Len(stack) + 1) =>
       \A i \in 1..Len(candidates) :
         ~RanksAbove(mutable, candidates[i], current', current, inPath,
                     reached)]_vars

\* A won run whose last move went to a tile of the goal column with a count,
\* although a tile of the goal column that is collected earlier, and differs
\* from it in the count only, was a candidate too.
C31_Witness ==
  /\ pc = "returned"
  /\ result.win
  /\ Len(path) >= 2
  /\ LET n == Len(path)
         g == frames[n - 1]
     IN  \E q \in DOMAIN g :
           /\ KingMove(path[n - 1], q)
           /\ q[2] = Width(g) - 1
           /\ q[1] < path[n][1]
           /\ Walkable(g, q)
           /\ g[q].type = g[path[n]].type
           /\ g[q].count < g[path[n]].count

\* The sum of visits over the tiles ps of grid g.
RECURSIVE SumVisits(_, _)
SumVisits(g, ps) ==
  IF ps = {}
  THEN 0
  ELSE LET p == CHOOSE q \in ps : TRUE
       IN  g[p].visits + SumVisits(g, ps \ {p})

\* How many entries of the path are tile p.
Occurrences(p) == Cardinality({i \in 1..Len(path) : path[i] = p})

\* C32: at the end of a run (and after each of its steps) every tile's
\* visits is its visits when the run started plus the number of entries of
\* the path that are this tile, steps back included; the sum of visits over
\* the grid has grown by the length of the path.
C32_VisitsCountLandings ==
  pc \in {"loop", "returned"} =>
    /\ \A p \in DOMAIN mutable :
         mutable[p].visits = entryGrid[p].visits + Occurrences(p)
    /\ SumVisits(mutable, DOMAIN mutable)
         = SumVisits(entryGrid, DOMAIN entryGrid) + Len(path)

\* A returned run on a grid that an earlier attempt wore: a tile with
\* visits from before is entered, left and re-entered by a step back.
C32_Witness ==
  /\ pc = "returned"
  /\ hardMode
  /\ \E i \in 3..Len(path) :
       /\ IsBacktrack(i)
       /\ entryGrid[path[i]].visits > 0
       /\ Occurrences(path[i]) >= 2
       /\ mutable[path[i]].visits >= 3

\* C33: a run that is not skipped returns reachedColumns = 1 + the largest
\* column index of its path, so between 1 and the number of columns W, and
\* W when the run is won.
C33_ReachedColumns ==
  (pc = "returned" /\ ~result.skipped) =>
    /\ path # <<>>
    /\ result.reachedColumns = 1 + SetMax({path[i][2] : i \in Landings})
    /\ 1 <= result.reachedColumns
    /\ result.reachedColumns <= Width(mutable)
    /\ result.win => result.reachedColumns = Width(mutable)

\* A lost run that ended behind the furthest column of its path, short of
\* the goal column.
C33_Witness ==
  /\ pc = "returned"
  /\ result.death
  /\ result.reachedColumns >= 3
  /\ result.reachedColumns < Width(mutable)
  /\ path[Len(path)][2] + 1 < result.reachedColumns

\* The state in which a run on grid g from start row r begins its loop (or
\* returns skipped): it is made of g and r alone.
StartsAlone(g, r) ==
  LET start == <<r, 0>>
  IN  IF g[start].type = "lava"
      THEN /\ pc' = "returned"
           /\ result'.skipped
           /\ path' = <<>>
           /\ frames' = <<>>
           /\ mutable' = g
      ELSE /\ pc' = "loop"
           /\ result' = NoResult
           /\ path' = <<start>>
           /\ current' = start
           /\ stack' = <<start>>
           /\ inPath' = {start}
           /\ DOMAIN triedFrom' = {}
           /\ DOMAIN visited' = {start}
           /\ visited'[start] = 1
           /\ reached' = 0
           /\ frames' = <<mutable'>>
           /\ WearApplied(g[start], mutable'[start])
           /\ \A t \in DOMAIN g : t # start => mutable'[t] = g[t]

\* The round runs its attempts in the order of the start rows.
RowsInOrder ==
  /\ pc \in {"call", "loop", "returned"} => (row = Len(results) /\ row < 7)
  /\ pc = "done" => (row = 7 /\ Len(results) = 7)
  /\ pc # "selected" =>
       \A i \in 1..Len(results) : results[i].attempt = i - 1
  /\ (pc \in {"loop", "returned"} /\ path # <<>>) => path[1] = <<row, 0>>
  /\ (pc = "returned" /\ result.skipped) => mutable = entryGrid
  /\ (hardMode /\ pc \in {"call", "returned"}) => grid = mutable

\* C34: the attempts of a round run in the order of the start rows 0 to 6,
\* one at a time. In hard mode attempt k starts from the tile states that
\* attempt k - 1 left in the shared grid, which a skipped attempt leaves as
\* they were; without hard mode every attempt starts from a freshly built
\* grid, in the state a standalone run on that grid starts in, whatever the
\* attempts before it did.
C34_AttemptsChained ==
  /\ []RowsInOrder
  /\ [][(pc = "call" /\ pc' # "call") =>
          /\ hardMode =>
               /\ entryGrid' = mutable
               /\ StartsAlone(mutable, row)
          /\ ~hardMode =>
               /\ entryGrid' = toGameGrid(rawGrid, today)
               /\ StartsAlone(toGameGrid(rawGrid, today), row)]_vars
  /\ [][(pc = "returned" /\ pc' # "returned") =>
          /\ row' = row + 1
          /\ mutable' = mutable
          /\ grid' = grid]_vars

\* A hard-mode round whose third attempt has run on a grid that the first
\* two attempts, neither of them skipped, wore.
C34_Witness ==
  /\ hardMode
  /\ pc = "returned"
  /\ row = 2
  /\ ~result.skipped
  /\ ~results[1].skipped
  /\ ~results[2].skipped
  /\ entryGrid # toGameGrid(rawGrid, today)

\* C35: no result of a run has win and death both; both are false exactly
\* when the run is skipped, so a run that is not skipped returns exactly one
\* of win and death. The round records the three flags as returned.
C35_WinXorDeath ==
  /\ pc = "returned" =>
       /\ ~(result.win /\ result.death)
       /\ (~result.win /\ ~result.death) <=> result.skipped
  /\ \A i \in 1..Len(results) :
       /\ ~(results[i].win /\ results[i].death)
       /\ (~results[i].win /\ ~results[i].death) <=> results[i].skipped

\* A round in which a run of several moves returns death and no win after
\* a skipped attempt and an attempt that was not skipped were recorded.
C35_Witness ==
  /\ pc = "returned"
  /\ result.death
  /\ ~result.win
  /\ ~result.skipped
  /\ Len(path) >= 2
  /\ \E i, j \in 1..Len(results) :
       /\ ~results[i].skipped
       /\ results[j].skipped

\* ------------------------------------------------------ the contrib handler

RATE_LIMIT_WINDOW_MS == 30000
RATE_LIMIT_MAX == 40
DEFAULT_CACHE_TTL_SECONDS == 21600
\* Date.now() counts milliseconds, the cache's now counts seconds.
MsPerSecond == 1000

\* The clock runs through the windows 0..MaxWindows: each window's first
\* millisecond and the one after it.
MaxWindows == 1
\* A source IP sends up to LimitOver requests beyond RATE_LIMIT_MAX.
LimitOver == 2
\* A configured TTL shorter than a window, so that entries expire.
ShortTtl == 30

ClockValues ==
  {k * RATE_LIMIT_WINDOW_MS + e : k \in 0..MaxWindows, e \in {0, 1}}

\* The game has not started: the backend's specifications leave it alone.
GameIdle ==
  /\ rawGrid = <<>>
  /\ today = 0
  /\ hardMode = FALSE
  /\ row = 0
  /\ grid = <<>>
  /\ entryGrid = <<>>
  /\ pc = "idle"
  /\ mutable = <<>>
  /\ frames = <<>>
  /\ path = <<>>
  /\ current = <<0, 0>>
  /\ visited = <<>>
  /\ stack = <<>>
  /\ inPath = {}
  /\ triedFrom = <<>>
  /\ reached = 0
  /\ result = NoResult
  /\ results = <<>>
  /\ bestAttempt = NoBest

\* map.set(key, value).
mapSet(map, key, value) ==
  [k \in DOMAIN map \cup {key} |-> IF k = key THEN value ELSE map[k]]

\* Variant: the window ends at resetAt - 1.
windowOpenStrict(map, ip, now) ==
  /\ ip \in DOMAIN map
  /\ ~(map[ip].resetAt <= now)

\* isRateLimited: the window of ip is open at now (an entry exists and its
\* resetAt is not before now).
windowOpen(map, ip, now) ==
  /\ ip \in DOMAIN map
  /\ ~(map[ip].resetAt < now)

\* isRateLimited: what the call leaves in rateLimitMap.
countRequest(map, ip, now) ==
  IF ip = "" THEN map
  ELSE IF ~windowOpen(map, ip, now)
    THEN mapSet(map, ip, [count |-> 1, resetAt |-> now + RATE_LIMIT_WINDOW_MS])
    ELSE mapSet(map, ip, [map[ip] EXCEPT !.count = @ + 1])

\* Variant: the request that reaches RATE_LIMIT_MAX is limited already.
isRateLimitedAtMax(map, ip, now) ==
  /\ ip # ""
  /\ windowOpen(map, ip, now)
  /\ map[ip].count + 1 >= RATE_LIMIT_MAX

\* Variant: a limited request is not counted, so the limit holds for one
\* request only.
isRateLimitedOnce(map, ip, now) ==
  /\ ip # ""
  /\ windowOpen(map, ip, now)
  /\ map[ip].count + 1 = RATE_LIMIT_MAX + 1

\* isRateLimited: what the call returns.
isRateLimited(map, ip, now) ==
  /\ ip # ""
  /\ windowOpen(map, ip, now)
  /\ map[ip].count + 1 > RATE_LIMIT_MAX

\* parseProvider: the provider, or "" for null.
parseProvider(value) ==
  IF value = "github" \/ value = "gitlab" THEN value ELSE ""

\* isValidUsername: "" stands for a missing or malformed name.
isValidUsername(value) == value # ""

\* The handler's checks of the query; the dates and the host of the
\* model's queries pass theirs.
validQuery(query) ==
  /\ parseProvider(query.provider) # ""
  /\ isValidUsername(query.username)

buildCacheKey(provider, username, from, to, gitlabHost) ==
  <<provider, username, from, to, gitlabHost>>

keyOf(query) ==
  buildCacheKey(parseProvider(query.provider), query.username, query.from,
                query.to, query.gitlabHost)

getEnvNumber(value, fallback) == IF value = <<>> THEN fallback ELSE value[1]

\* getCacheEntry's null.
NoEntry == [missing |-> TRUE]

\* getCacheEntry, reading the items the request's read sees.
getCacheEntry(items, cacheKey) ==
  IF TABLE_NAME = "" THEN NoEntry
  ELSE IF cacheKey \in DOMAIN items THEN items[cacheKey] ELSE NoEntry

\* Variant: putCacheEntry writes although no table is configured.
putCacheEntryAlways(items, cacheKey, entry) ==
  mapSet(items, cacheKey, entry)

\* putCacheEntry: the items after the write.
putCacheEntry(items, cacheKey, entry) ==
  IF TABLE_NAME = "" THEN items ELSE mapSet(items, cacheKey, entry)

\* JSON.parse(payload) does not throw.
parses(payload) == payload = "json"

\* Variant: an entry is fresh up to and including expiresAt, whatever its
\* payload.
cacheHitLate(cached, now) ==
  /\ cached # NoEntry
  /\ cached.expiresAt >= now

\* Variant: any entry found is served.
cacheHitStale(cached, now) ==
  /\ cached # NoEntry
  /\ parses(cached.payload)

\* The cached entry is served: it has not expired and its payload parses.
cacheHit(cached, now) ==
  /\ cached # NoEntry
  /\ cached.expiresAt > now
  /\ parses(cached.payload)

\* The response, and what the request took: a cache read, an upstream fetch,
\* the days that the fetch returned, a cache write.
Answer(ip, status, query, read, fetched, days, stored) ==
  [ip |-> ip, status |-> status, query |-> query, read |-> read,
   fetched |-> fetched, days |-> days, stored |-> stored]

\* handler, for a request of source IP ip ("" when there is none) with the
\* given query.  The environment decides what the request meets: the cache
\* read sees the table ("fresh"), lags behind it ("stale", the read is not
\* a consistent one) or fails ("error"); the upstream fetch and the cache
\* write succeed ("ok") or throw ("error").  A failed cache read leaves the
\* handler by an exception: status 500.
handler(ip, query, read, fetch, write) ==
  LET now == clock \div MsPerSecond
      cacheKey == keyOf(query)
      seen == IF read = "stale" THEN cacheStale ELSE cacheTable
      cached == getCacheEntry(seen, cacheKey)
      ttlSeconds == getEnvNumber(CACHE_TTL_SECONDS, DEFAULT_CACHE_TTL_SECONDS)
      entry == [payload |-> "json", fetchedAt |-> now,
                expiresAt |-> now + ttlSeconds]
      stored == putCacheEntry(cacheTable, cacheKey, entry)
  IN
  /\ rateLimitMap' = countRequest(rateLimitMap, ip, clock)
  /\ IF isRateLimited(rateLimitMap, ip, clock)
       THEN /\ response' = Answer(ip, 429, query, FALSE, FALSE, FALSE, FALSE)
            /\ UNCHANGED <<cacheTable, cacheStale>>
     ELSE IF ~validQuery(query)
       THEN /\ response' = Answer(ip, 400, query, FALSE, FALSE, FALSE, FALSE)
            /\ UNCHANGED <<cacheTable, cacheStale>>
     ELSE IF TABLE_NAME # "" /\ read = "error"
       THEN /\ response' = Answer(ip, 500, query, TRUE, FALSE, FALSE, FALSE)
            /\ UNCHANGED <<cacheTable, cacheStale>>
     ELSE IF cacheHit(cached, now)
       THEN /\ response' = Answer(ip, 200, query, TRUE, FALSE, FALSE, FALSE)
            /\ UNCHANGED <<cacheTable, cacheStale>>
     ELSE IF fetch = "error"
       THEN /\ response' = Answer(ip, 502, query, TRUE, TRUE, FALSE, FALSE)
            /\ UNCHANGED <<cacheTable, cacheStale>>
     ELSE IF TABLE_NAME # "" /\ write = "error"
       THEN /\ response' = Answer(ip, 502, query, TRUE, TRUE, TRUE, FALSE)
            /\ UNCHANGED <<cacheTable, cacheStale>>
     ELSE /\ response' = Answer(ip, 200, query, TRUE, TRUE, TRUE,
                                 TABLE_NAME # "")
          /\ cacheTable' = stored
          /\ cacheStale' = cacheTable
  /\ UNCHANGED <<notContrib, clock, TABLE_NAME,
                 CACHE_TTL_SECONDS>>

\* Time passes; the table's replicas may catch up with the last write.
Tick ==
  /\ \E t \in ClockValues :
       /\ t > clock
       /\ clock' = t
  /\ cacheStale' \in {cacheStale, cacheTable}
  /\ UNCHANGED <<notContrib, rateLimitMap, TABLE_NAME,
                 CACHE_TTL_SECONDS, cacheTable, response>>

\* --- Rate limiting: requests of two source IPs and requests without one,
\* on a backend without a cache table.
LimitIps == {"", "10.0.0.1", "10.0.0.2"}

Query(provider, username) ==
  [provider |-> provider, username |-> username, from |-> "2024-01-01",
   to |-> "2024-03-31", gitlabHost |-> "gitlab.com"]

LimitQueries == {Query("github", "ada"), Query("github", "")}

\* The source IP has sent fewer than RATE_LIMIT_MAX + LimitOver requests in
\* its window.
MaySend(ip) ==
  IF windowOpen(rateLimitMap, ip, clock)
  THEN rateLimitMap[ip].count < RATE_LIMIT_MAX + LimitOver
  ELSE TRUE

InitLimit ==
  /\ GameIdle
  /\ ContribIdle
  /\ BackoffIdle
  /\ PageIdle

NextLimit ==
  \/ Tick
  \/ \E ip \in LimitIps : \E query \in LimitQueries :
       /\ MaySend(ip)
       /\ handler(ip, query, "fresh", "ok", "ok")

SpecLimit == InitLimit /\ [][NextLimit]_vars

\* --- The cache: requests that carry no source IP, which the limiter does
\* not count, on a backend with or without a table, with the default TTL
\* or a short one; the table may hold an entry written by something else,
\* whose payload does not parse.
CacheQueries ==
  {Query("github", "ada"), Query("gitlab", "ada"), Query("svn", "ada")}

Garbage ==
  [payload |-> "garbage", fetchedAt |-> 0,
   expiresAt |-> DEFAULT_CACHE_TTL_SECONDS]

InitCache ==
  /\ GameIdle
  /\ BackoffIdle
  /\ PageIdle
  /\ clock = 0
  /\ rateLimitMap = <<>>
  /\ TABLE_NAME \in {"", "contrib-cache"}
  /\ CACHE_TTL_SECONDS \in {<<>>, <<ShortTtl>>}
  /\ cacheTable \in
       IF TABLE_NAME = "" THEN {<<>>}
       ELSE {<<>>, mapSet(<<>>, keyOf(Query("gitlab", "ada")), Garbage)}
  /\ cacheStale = cacheTable
  /\ response = NoResponse

NextCache ==
  \/ Tick
  \/ \E query \in CacheQueries : \E read \in {"fresh", "stale", "error"} :
       \E fetch \in {"ok", "error"} : \E write \in {"ok", "error"} :
         handler("", query, read, fetch, write)

SpecCache == InitCache /\ [][NextCache]_vars

\* The step handles a request: the clock stands still.
RequestStep == clock' = clock

\* The source IP has a window that has not ended: resetAt is now or later.
InWindow(ip) ==
  /\ ip \in DOMAIN rateLimitMap
  /\ clock <= rateLimitMap[ip].resetAt

\* What a request of response'.ip does to the limiter: it joins the open
\* window of its source IP as one more request, or opens a window with
\* count 1 that ends RATE_LIMIT_WINDOW_MS later.
Counted ==
  LET ip == response'.ip
  IN IF InWindow(ip)
     THEN rateLimitMap'[ip] =
            [count |-> rateLimitMap[ip].count + 1,
             resetAt |-> rateLimitMap[ip].resetAt]
     ELSE rateLimitMap'[ip] =
            [count |-> 1, resetAt |-> clock + RATE_LIMIT_WINDOW_MS]

\* C36: per source IP, the requests of a window that opens with the first
\* request and ends RATE_LIMIT_WINDOW_MS later are counted; a request is
\* answered 429 exactly when it is the 41st or a later one of its window,
\* so at most RATE_LIMIT_MAX requests of a window are let through, and a
\* 429 takes no validation (it is the answer to an invalid query too), no
\* cache read, no upstream fetch and no cache write; the first request
\* after resetAt opens a new window with count 1 and is let through; other
\* IPs' windows are left alone, and a request without a source IP is never
\* answered 429 and leaves the limiter as it is.
C36_RateLimit ==
  [][RequestStep =>
      LET ip == response'.ip
          limited == response'.status = 429
      IN /\ ip = "" => ~limited /\ rateLimitMap' = rateLimitMap
         /\ ip # "" =>
              /\ Counted
              /\ \A other \in DOMAIN rateLimitMap \ {ip} :
                   rateLimitMap'[other] = rateLimitMap[other]
              /\ limited <=> rateLimitMap'[ip].count > RATE_LIMIT_MAX
              /\ ~InWindow(ip) => ~limited
         /\ limited =>
              /\ ~response'.read
              /\ ~response'.fetched
              /\ ~response'.stored
              /\ cacheTable' = cacheTable]_vars

\* The 41st request of a window, with an invalid query and before the
\* window's resetAt, was answered 429, while another source IP is on the
\* first request of a window that it opened after an earlier one had ended.
C36_Witness ==
  /\ response.status = 429
  /\ ~validQuery(response.query)
  /\ rateLimitMap[response.ip].count = RATE_LIMIT_MAX + 1
  /\ clock < rateLimitMap[response.ip].resetAt
  /\ \E other \in DOMAIN rateLimitMap \ {response.ip} :
       /\ rateLimitMap[other].count = 1
       /\ rateLimitMap[other].resetAt > 2 * RATE_LIMIT_WINDOW_MS

\* The items hold an entry for the key that has not expired at now and
\* whose payload parses.
Usable(items, key, now) ==
  /\ key \in DOMAIN items
  /\ items[key].expiresAt > now
  /\ items[key].payload = "json"

\* The step answers a request that passed the limiter and the validation.
ValidRequestStep ==
  /\ RequestStep
  /\ response'.status \notin {429, 400}

Seconds == clock \div MsPerSecond

Ttl ==
  IF CACHE_TTL_SECONDS = <<>> THEN DEFAULT_CACHE_TTL_SECONDS
  ELSE CACHE_TTL_SECONDS[1]

\* The entry of the request's key after the step is the one of this fetch.
StoredNow ==
  LET key == keyOf(response'.query)
  IN /\ key \in DOMAIN cacheTable'
     /\ cacheTable'[key].fetchedAt = Seconds
     /\ cacheTable'[key].expiresAt = Seconds + Ttl
     /\ cacheTable'[key].payload = "json"

\* The upstream provider is contacted only when the table holds no usable
\* entry for the key.
FetchOnlyOnMiss ==
  [][ValidRequestStep /\ response'.fetched =>
      ~Usable(cacheTable, keyOf(response'.query), Seconds)]_vars

\* A failed upstream fetch answers 502 and writes nothing.
FailedFetchIs502 ==
  [][ValidRequestStep /\ response'.fetched /\ ~response'.days =>
      /\ response'.status = 502
      /\ cacheTable' = cacheTable]_vars

\* The claim as stated: upstream is contacted only when no usable entry
\* exists for the key; a successful upstream fetch stores an entry with
\* expiresAt = now + TTL and answers 200; a failed one answers 502 and
\* writes nothing.
C37_FetchAlwaysStores ==
  /\ FetchOnlyOnMiss
  /\ [][ValidRequestStep /\ response'.days =>
         /\ response'.status = 200
         /\ StoredNow]_vars
  /\ FailedFetchIs502

\* C37: for a valid request the upstream provider is contacted only when
\* the cache read returned no usable entry for the key, the read being one
\* of the table or of a replica that lags behind it, and it is contacted
\* whenever neither holds one and the read did not fail; after a successful
\* upstream fetch, with a table configured the entry with expiresAt = now +
\* TTL is stored before 200 is answered, or 502 is answered when the write
\* fails, and without a table 200 is answered and nothing is stored; a
\* failed upstream fetch answers 502 and writes nothing.
C37_FetchStoresIfTable ==
  /\ [][ValidRequestStep =>
         LET key == keyOf(response'.query)
         IN /\ response'.fetched =>
                 \/ ~Usable(cacheTable, key, Seconds)
                 \/ ~Usable(cacheStale, key, Seconds)
            /\ /\ ~Usable(cacheTable, key, Seconds)
               /\ ~Usable(cacheStale, key, Seconds)
               /\ response'.status # 500
               => response'.fetched
            /\ response'.days /\ TABLE_NAME # "" =>
                 \/ /\ response'.status = 200
                    /\ response'.stored
                    /\ StoredNow
                 \/ /\ response'.status = 502
                    /\ cacheTable' = cacheTable
            /\ response'.days /\ TABLE_NAME = "" =>
                 /\ response'.status = 200
                 /\ cacheTable' = cacheTable
            /\ response'.status = 200 =>
                 \/ ~response'.fetched
                 \/ response'.days]_vars
  /\ FailedFetchIs502

\* An entry has expired and a request for its key fetched upstream again:
\* the new entry, written at a later second, is in the table, and the
\* replica still holds the old one.
C37_Witness ==
  /\ response.status = 200
  /\ response.stored
  /\ LET key == keyOf(response.query)
     IN /\ key \in DOMAIN cacheTable
        /\ key \in DOMAIN cacheStale
        /\ cacheTable[key].fetchedAt = Seconds
        /\ cacheTable[key].expiresAt = Seconds + Ttl
        /\ cacheStale[key].payload = "json"
        /\ cacheStale[key].expiresAt <= Seconds

\* ------------------------------------------------------- fetchWithBackoff

\* The first sleep, in milliseconds.
InitialDelay == 400

\* The largest tries of the model's calls.
MaxTries == 4

\* What a request comes to: a response with a status, or an exception
\* (a network error, or the abort after DEFAULT_TIMEOUT_MS), written
\* NetworkError.
NetworkError == 0

Outcomes == {200, 404, 429, 500, 503, NetworkError}

\* Variant: every error status is tried again.
retryStatusAnyError(status) == status >= 400

\* The response is tried again when attempts are left.
retryStatus(status) == status >= 500 \/ status = 429

InitBackoff ==
  /\ GameIdle
  /\ ContribIdle
  /\ PageIdle
  /\ tries \in 0..MaxTries
  /\ attempt = 0
  /\ delay = InitialDelay
  /\ sleeps = <<>>
  /\ requests = <<>>
  /\ outcome = [kind |-> "running"]

\* Variant: the last attempt's error is swallowed and tried again.
RequestRetryAlways(got) ==
  /\ outcome.kind = "running"
  /\ attempt < tries
  /\ requests' = Append(requests, got)
  /\ IF got # NetworkError /\ ~retryStatus(got)
       THEN /\ outcome' = [kind |-> "response", status |-> got]
            /\ UNCHANGED <<attempt, delay, sleeps>>
       ELSE /\ sleeps' = Append(sleeps, delay)
            /\ delay' = delay * 2
            /\ attempt' = attempt + 1
            /\ UNCHANGED outcome
  /\ UNCHANGED <<notBackoff, tries>>

\* One turn of the loop: the request, which comes to got, and what follows
\* it: the return, the throw, or the sleep before the next turn.
Request(got) ==
  /\ outcome.kind = "running"
  /\ attempt < tries
  /\ requests' = Append(requests, got)
  /\ IF got # NetworkError /\ ~(retryStatus(got) /\ attempt < tries - 1)
       THEN /\ outcome' = [kind |-> "response", status |-> got]
            /\ UNCHANGED <<attempt, delay, sleeps>>
     ELSE IF attempt < tries - 1
       THEN /\ sleeps' = Append(sleeps, delay)
            /\ delay' = delay * 2
            /\ attempt' = attempt + 1
            /\ UNCHANGED outcome
     ELSE /\ outcome' = [kind |-> "error"]
          /\ UNCHANGED <<attempt, delay, sleeps>>
  /\ UNCHANGED <<notBackoff, tries>>

\* The loop's test fails: the throw after the loop.
Exhausted ==
  /\ outcome.kind = "running"
  /\ ~(attempt < tries)
  /\ outcome' = [kind |-> "unexpected"]
  /\ UNCHANGED <<notBackoff, tries, attempt, delay, sleeps,
                 requests>>

NextBackoff ==
  \/ \E got \in Outcomes : Request(got)
  \/ Exhausted

\* A request settles (by DEFAULT_TIMEOUT_MS at the latest) and a sleep ends:
\* the loop goes on while the call runs.
SpecBackoff ==
  InitBackoff /\ [][NextBackoff]_vars /\ WF_vars(NextBackoff)

\* The request was a response whose status is not one to try again.
Final(got) == got # NetworkError /\ got < 500 /\ got # 429

RECURSIVE Doubling(_)
\* The first n sleeps: InitialDelay, then twice the one before.
Doubling(n) ==
  IF n = 0 THEN <<>>
  ELSE IF n = 1 THEN <<InitialDelay>>
  ELSE Append(Doubling(n - 1), 2 * Doubling(n - 1)[n - 1])

BackoffShape ==
  /\ Len(requests) <= tries
  /\ sleeps = Doubling(Len(sleeps))
  /\ \A i \in 1..Len(sleeps) : ~Final(requests[i])
  /\ outcome.kind = "running" => Len(sleeps) = Len(requests)
  /\ outcome.kind = "response" =>
       /\ requests # <<>>
       /\ Len(sleeps) = Len(requests) - 1
       /\ outcome.status = requests[Len(requests)]
       /\ outcome.status # NetworkError
       /\ Final(outcome.status) \/ Len(requests) = tries
  /\ outcome.kind = "error" =>
       /\ Len(requests) = tries
       /\ Len(sleeps) = tries - 1
       /\ requests[Len(requests)] = NetworkError
  /\ outcome.kind = "unexpected" => tries = 0 /\ requests = <<>>

\* C38: a call makes at most tries requests; before every request but the
\* first it sleeps, InitialDelay at first and twice the sleep before each
\* time after, and only after a response of status >= 500 or 429 or a
\* request that threw; the first response of another status is returned at
\* once; the last attempt returns its response whatever the status, or
\* throws its error; and every call ends.
C38_BackoffBounded ==
  /\ []BackoffShape
  /\ <>(outcome.kind # "running")

\* A call with tries = 3 slept InitialDelay and twice that after a 429 and
\* a request that threw, and returned the 503 of its last attempt.
C38_Witness ==
  /\ tries = 3
  /\ requests = <<429, NetworkError, 503>>
  /\ sleeps = <<InitialDelay, 2 * InitialDelay>>
  /\ outcome = [kind |-> "response", status |-> 503]

\* ---------------------------------------------------------------- runGame

\* The rounds a behaviour of the model starts.
MaxRounds == 4

\* What a submit finds in the form: fields that pass runGame's checks, a
\* missing field, or a number of weeks out of range; and the hard-mode box.
Forms == [fields : {"filled", "blank", "weeks"}, hardMode : BOOLEAN]

\* A call of runGame at its first await, with the hardMode it read.
NewRound(id, form) ==
  [id |-> id, hardMode |-> form.hardMode, stage |-> "fetching", shown |-> 0]

\* Variant: runGame without its test of isRunning.
SubmitUnguarded(form) ==
  /\ started < MaxRounds
  /\ IF form.fields = "blank"
       THEN /\ errorText' = "Fill out all fields."
            /\ isRunning' = FALSE
            /\ submitted' = "rejected"
            /\ UNCHANGED <<rounds, started>>
     ELSE IF form.fields = "weeks"
       THEN /\ errorText' = "Weeks must be between"
            /\ isRunning' = FALSE
            /\ submitted' = "rejected"
            /\ UNCHANGED <<rounds, started>>
     ELSE /\ errorText' = ""
          /\ isRunning' = TRUE
          /\ submitted' = "started"
          /\ started' = started + 1
          /\ rounds' = rounds \cup {NewRound(started + 1, form)}
  /\ UNCHANGED notRound

\* The submit handler: runGame up to its first await.
Submit(form) ==
  /\ started < MaxRounds
  /\ IF isRunning
       THEN /\ submitted' = "ignored"
            /\ UNCHANGED <<isRunning, rounds, started, errorText>>
     ELSE IF form.fields = "blank"
       THEN /\ errorText' = "Fill out all fields."
            /\ isRunning' = FALSE
            /\ submitted' = "rejected"
            /\ UNCHANGED <<rounds, started>>
     ELSE IF form.fields = "weeks"
       THEN /\ errorText' = "Weeks must be between"
            /\ isRunning' = FALSE
            /\ submitted' = "rejected"
            /\ UNCHANGED <<rounds, started>>
     ELSE /\ errorText' = ""
          /\ isRunning' = TRUE
          /\ submitted' = "started"
          /\ started' = started + 1
          /\ rounds' = rounds \cup {NewRound(started + 1, form)}
  /\ UNCHANGED notRound

\* Variant: the flag is reset on the normal way out only.
LeaveNoFinally(r, message) ==
  /\ rounds' = rounds \ {r}
  /\ IF message = ""
       THEN isRunning' = FALSE /\ UNCHANGED errorText
       ELSE errorText' = message /\ UNCHANGED isRunning

\* The round leaves runGame's try: the catch shows the message of an
\* exception, the finally resets the flag.
Leave(r, message) ==
  /\ rounds' = rounds \ {r}
  /\ isRunning' = FALSE
  /\ IF message = "" THEN UNCHANGED errorText ELSE errorText' = message

\* fetchContribWithFallback settles; with the days, the attempts are
\* simulated and scored and the first animation starts.  The fetch throws,
\* or the simulation does, or neither.
FetchSettles(r, got) ==
  /\ r \in rounds
  /\ r.stage = "fetching"
  /\ IF got = "days"
       THEN /\ rounds' = (rounds \ {r}) \cup {[r EXCEPT !.stage = "animating"]}
            /\ UNCHANGED <<isRunning, errorText>>
     ELSE IF got = "fetch throws"
       THEN Leave(r, "Failed to load contributions.")
     ELSE Leave(r, "Something went wrong.")
  /\ UNCHANGED <<started, submitted>>
  /\ UNCHANGED notRound

\* The animation of one attempt (or the pause of a skipped one) ends; after
\* the last the round is over.
AnimationEnds(r) ==
  /\ r \in rounds
  /\ r.stage = "animating"
  /\ IF r.shown + 1 < attemptCount
       THEN /\ rounds' = (rounds \ {r}) \cup {[r EXCEPT !.shown = @ + 1]}
            /\ UNCHANGED <<isRunning, errorText>>
       ELSE Leave(r, "")
  /\ UNCHANGED <<started, submitted>>
  /\ UNCHANGED notRound

InitRound ==
  /\ GameIdle
  /\ WebIdle

RoundGoesOn ==
  \/ \E r \in rounds : \E got \in {"days", "fetch throws", "run throws"} :
       FetchSettles(r, got)
  \/ \E r \in rounds : AnimationEnds(r)

NextRound ==
  \/ \E form \in Forms : Submit(form)
  \/ RoundGoesOn

\* A fetch settles and an animation ends: a round in progress goes on.
SpecRound == InitRound /\ [][NextRound]_vars /\ WF_vars(RoundGoesOn)

RoundIds(rs) == {r.id : r \in rs}

OneRound ==
  /\ Cardinality(rounds) <= 1
  /\ isRunning <=> rounds # {}

\* C39: at most one round is in progress at any time, and isRunning is true
\* exactly while one is; a submit while isRunning is true starts no round
\* and changes nothing of the page; whenever a round is over, by its last
\* animation, by a check of the form, or by an exception of the fetch or of
\* the simulation, isRunning is false again, and every round in progress
\* comes to that.
C39_OneRoundAtATime ==
  /\ []OneRound
  /\ [][isRunning =>
          /\ started' = started
          /\ RoundIds(rounds') \subseteq RoundIds(rounds)]_vars
  /\ [][submitted # "ignored" /\ submitted' = "ignored" =>
          isRunning /\ UNCHANGED <<isRunning, rounds, started, errorText>>]_vars
  /\ [][rounds' # rounds /\ rounds' = {} => ~isRunning']_vars
  /\ isRunning ~> ~isRunning

\* A second round is in progress, its fetch done, and a submit during it
\* was ignored.
C39_Witness ==
  /\ started = 2
  /\ isRunning
  /\ submitted = "ignored"
  /\ errorText = ""
  /\ \E r \in rounds : r.id = 2 /\ r.stage = "animating"

\* ------------------------------------------------------------ the preview

\* The preview loads a behaviour of the model starts.
MaxLoads == 3

\* What loadPreview finds in the form when its timer fires: the cacheKey of
\* provider, username, host and range, or "" when the username is blank.
PreviewKeys == {"", "github:ada:2024", "github:ada:2025", "gitlab:ada:2025"}

\* Variant: the catch shows the error of any load.
ApplyErrorOfAny(load, got) ==
  IF got = "days"
  THEN IF load.requestId # previewRequestId
       THEN /\ dropped' = dropped \cup {load.requestId}
            /\ UNCHANGED <<previewGrid, previewMeta, errorText>>
       ELSE /\ previewGrid' = [key |-> load.key]
            /\ previewMeta' = [key |-> load.key]
            /\ UNCHANGED <<errorText, dropped>>
  ELSE /\ errorText' = "Failed to load contributions."
       /\ UNCHANGED <<previewGrid, previewMeta, dropped>>

\* loadPreview after its await: the response or the error of a load whose
\* id is no longer previewRequestId is dropped; the days of the latest load
\* become the preview, its error is shown.
Apply(load, got) ==
  IF load.requestId # previewRequestId
  THEN /\ dropped' = dropped \cup {load.requestId}
       /\ UNCHANGED <<previewGrid, previewMeta, errorText>>
  ELSE IF got = "days"
    THEN /\ previewGrid' = [key |-> load.key]
         /\ previewMeta' = [key |-> load.key]
         /\ UNCHANGED <<errorText, dropped>>
  ELSE /\ errorText' = "Failed to load contributions."
       /\ UNCHANGED <<previewGrid, previewMeta, dropped>>

\* loadPreview up to its await, run by the timer of schedulePreviewFetch.
loadPreview(key) ==
  /\ previewRequestId < MaxLoads
  /\ key # ""
  /\ key # lastPreviewKey
  /\ lastPreviewKey' = key
  /\ previewRequestId' = previewRequestId + 1
  /\ errorText' = ""
  /\ loads' = loads \cup {[requestId |-> previewRequestId + 1, key |-> key]}
  /\ UNCHANGED <<previewGrid, previewMeta, dropped>>
  /\ UNCHANGED notPreview

\* loadPreview returns at once: no username, or the key of the last load.
loadPreviewReturns(key) ==
  /\ key = "" \/ key = lastPreviewKey
  /\ UNCHANGED vars

\* fetchContribWithFallback settles for one of the loads, in any order.
PreviewSettles(load, got) ==
  /\ load \in loads
  /\ loads' = loads \ {load}
  /\ Apply(load, got)
  /\ UNCHANGED <<previewRequestId, lastPreviewKey>>
  /\ UNCHANGED notPreview

InitPreview ==
  /\ GameIdle
  /\ WebIdle

NextPreview ==
  \/ \E key \in PreviewKeys : loadPreview(key)
  \/ \E key \in PreviewKeys : loadPreviewReturns(key)
  \/ \E load \in loads : \E got \in {"days", "error"} :
       PreviewSettles(load, got)

SpecPreview == InitPreview /\ [][NextPreview]_vars

\* The loads that settle in the step.
Settled == loads \ loads'

\* C40: the response or the error of a load that is not the one started
\* last changes neither previewGrid, previewMeta nor the error shown, in
\* whatever order the loads settle; previewGrid and previewMeta change only
\* by the response of the load started last, to the preview of its key, and
\* an error is shown only for that load.
C40_LatestPreviewWins ==
  /\ [][\A load \in Settled :
          load.requestId # previewRequestId =>
            UNCHANGED <<previewGrid, previewMeta, errorText>>]_vars
  /\ [][previewGrid' # previewGrid \/ previewMeta' # previewMeta =>
          \E load \in Settled :
            /\ load.requestId = previewRequestId
            /\ load.key = lastPreviewKey
            /\ previewGrid' = [key |-> load.key]
            /\ previewMeta' = [key |-> load.key]]_vars
  /\ [][errorText' # errorText /\ errorText' # "" =>
          \E load \in Settled : load.requestId = previewRequestId]_vars

\* Three loads overlapped: the third was answered first and is the preview,
\* the second failed after that and the first was answered last; both were
\* dropped, and no error is shown.
C40_Witness ==
  /\ previewRequestId = 3
  /\ loads = {}
  /\ dropped = {1, 2}
  /\ previewGrid = [key |-> lastPreviewKey]
  /\ previewMeta = [key |-> lastPreviewKey]
  /\ errorText = ""

====
